---- MODULE Spec2Model ----
(***************************************************************************)
(* SEVEN: energy-aware prompt router.                                      *)
(*                                                                         *)
(* The module models the routing/escalation engine of src/SEVEN:           *)
(*   - heuristics.py : classify_query_type, detect_api_intent,             *)
(*                     response_shows_uncertainty (pure functions on text) *)
(*   - api_check.py  : run_api_check (the augmentation sub-pipeline)       *)
(*   - router.py     : route_prompt (the escalation orchestrator)          *)
(*   - local_model.py / cloud_model.py : the two backend clients           *)
(*                                                                         *)
(* Text is modelled by strings; lower(), strip(), split() and the          *)
(* substring test are computed character by character.                     *)
(*                                                                         *)
(* Specifications:                                                         *)
(*   Spec         one call of route_prompt, a backend call being one step  *)
(*   SpecFn       the pure functions of heuristics.py on drawn prompts     *)
(*   SpecClient   one call of ask_local, attempt by attempt, or ask_cloud  *)
(*   SpecObserved Spec with a status callback that may raise               *)
(*   SpecValidator response_shows_uncertainty on drawn responses           *)
(*   SpecConcurrent two calls of route_prompt, their steps interleaved     *)
(*   SpecLive     Spec under the scheduling of a sequential call           *)
(*   SpecChat     the chat widget of apps/elia calling route_prompt        *)
(***************************************************************************)
EXTENDS Integers, Sequences, FiniteSets, TLC

VARIABLES
    pc,                   \* position of the call inside route_prompt
    prompt,               \* route_prompt argument
    use_cloud,            \* route_prompt keyword argument
    enable_realtime_apis, \* route_prompt keyword argument
    auto_escalate,        \* route_prompt keyword argument
    observer,             \* TRUE iff on_status_change is supplied
    system_prompt,        \* route_prompt keyword argument (None if absent)
    temperature,          \* route_prompt keyword argument, in tenths
    max_tokens,           \* route_prompt keyword argument
    classification,       \* result of classify_query_type, or NoValue
    intent,               \* result of detect_api_intent (None before)
    api_results,          \* api_results of run_api_check
    local_response,       \* the cheap-backend response of the local path
    local_exc,            \* exception raised inside the local path
    cloud_exc,            \* exception raised by the last ask_cloud
    calls,                \* backend / provider / classifier calls, in order
    statuses,             \* status codes handed to on_status_change
    outcome,              \* what the call under study gave its caller
    env,                  \* environment variables read by the backend clients
    attempt,              \* ask_local: attempt
    max_attempts,         \* ask_local: max_attempts
    backoff,              \* ask_local: backoff, in milliseconds
    sleeps,               \* delays handed to time.sleep, in milliseconds
    requests,             \* HTTP exchanges of the backend client, in order
    tables,               \* module-level tables and default profiles
    parked,               \* the other call of route_prompt, while it waits
    running,              \* which call of route_prompt the variables hold
    submit_ready,         \* ChatPromptInput.submit_ready
    input_text,           \* ChatPromptInput.text
    messages,             \* Chat.chat_data.messages
    worker,               \* position of the stream_agent_response worker
    posted,               \* messages the worker posted to Chat, in order
    handled               \* how many of them Chat has handled

vars == << pc, prompt, use_cloud, enable_realtime_apis, auto_escalate,
           observer, system_prompt, temperature, max_tokens, classification,
           intent, api_results,
           local_response, local_exc, cloud_exc, calls, statuses, outcome,
           env, attempt, max_attempts, backoff, sleeps, requests,
           tables, parked, running,
           submit_ready, input_text, messages, worker, posted, handled >>

\* Python None in a slot that holds an object (a response, an exception,
\* a classification)
NoValue == [none |-> TRUE]

\* Python None in a slot that holds a string (Optional[str])
None == "<None>"

(***************************************************************************)
(* Bounds of the explored inputs.                                          *)
(***************************************************************************)
MaxFrags == 2

(***************************************************************************)
(* String primitives (Python str.lower, str.strip, str.split, `in`).       *)
(***************************************************************************)
Whitespace == { " ", "\n", "\t", "\r" }

CharAt(s, i) == SubSeq(s, i, i)

UpperToLower ==
    [ c \in { "A", "B", "C", "D", "E", "F", "G", "H", "I", "J", "K", "L", "M",
              "N", "O", "P", "Q", "R", "S", "T", "U", "V", "W", "X", "Y", "Z" }
      |-> CASE c = "A" -> "a" [] c = "B" -> "b" [] c = "C" -> "c"
            [] c = "D" -> "d" [] c = "E" -> "e" [] c = "F" -> "f"
            [] c = "G" -> "g" [] c = "H" -> "h" [] c = "I" -> "i"
            [] c = "J" -> "j" [] c = "K" -> "k" [] c = "L" -> "l"
            [] c = "M" -> "m" [] c = "N" -> "n" [] c = "O" -> "o"
            [] c = "P" -> "p" [] c = "Q" -> "q" [] c = "R" -> "r"
            [] c = "S" -> "s" [] c = "T" -> "t" [] c = "U" -> "u"
            [] c = "V" -> "v" [] c = "W" -> "w" [] c = "X" -> "x"
            [] c = "Y" -> "y" [] c = "Z" -> "z" ]

LowerChar(c) == IF c \in DOMAIN UpperToLower THEN UpperToLower[c] ELSE c

RECURSIVE Lower(_)
Lower(s) ==
    IF Len(s) = 0 THEN ""
    ELSE IF Len(s) = 1 THEN LowerChar(s)
    ELSE LET h == Len(s) \div 2
         IN  Lower(SubSeq(s, 1, h)) \o Lower(SubSeq(s, h + 1, Len(s)))

\* Python `k in s`
Contains(s, k) ==
    \E i \in 1..(Len(s) - Len(k) + 1) : SubSeq(s, i, i + Len(k) - 1) = k

\* Python any(k in s for k in table)
ContainsAny(s, table) == \E k \in table : Contains(s, k)

IsSpace(s, i) == CharAt(s, i) \in Whitespace

\* index of the first non-whitespace character at or after i (Len(s)+1 if none)
RECURSIVE FirstNonSpace(_, _)
FirstNonSpace(s, i) ==
    IF i > Len(s) THEN i
    ELSE IF IsSpace(s, i) THEN FirstNonSpace(s, i + 1) ELSE i

\* index of the last non-whitespace character at or before i (0 if none)
RECURSIVE LastNonSpace(_, _)
LastNonSpace(s, i) ==
    IF i < 1 THEN 0
    ELSE IF IsSpace(s, i) THEN LastNonSpace(s, i - 1) ELSE i

\* Python str.strip()
Strip(s) ==
    LET lo == FirstNonSpace(s, 1)
        hi == LastNonSpace(s, Len(s))
    IN  IF lo > hi THEN "" ELSE SubSeq(s, lo, hi)

\* Python `not s or not s.strip()`
IsBlank(s) == Len(s) = 0 \/ Len(Strip(s)) = 0

\* Python str.split(): the words are the maximal runs of non-whitespace;
\* each word is identified by the index of its first character
Split(s) ==
    { i \in 1..Len(s) : ~IsSpace(s, i) /\ (i = 1 \/ IsSpace(s, i - 1)) }

(***************************************************************************)
(* heuristics.py : tunable constants                                       *)
(***************************************************************************)
WEATHER_KEYWORDS ==
    { "weather", "temperature", "forecast", "rain", "snow", "humidity",
      "wind" }

CRYPTO_KEYWORDS ==
    { "crypto", "bitcoin", "btc", "ethereum", "eth", "solana", "sol",
      "dogecoin", "doge", "token", "coin", "price" }

NEWS_KEYWORDS ==
    { "news", "headline", "breaking", "latest news", "today's news",
      "current events" }

\* dict order of API_INTENT_KEYWORDS: weather, crypto, news
API_INTENT_KEYWORDS ==
    << [intent |-> "weather", keywords |-> WEATHER_KEYWORDS],
       [intent |-> "crypto",  keywords |-> CRYPTO_KEYWORDS],
       [intent |-> "news",    keywords |-> NEWS_KEYWORDS] >>

\* REALTIME_KEYWORDS without the keywords of the intents
REALTIME_KEYWORDS_TimeWordsOnly ==
    { "current", "latest", "today", "now", "right now", "this week",
      "this month", "recent", "trading", "market cap", "stock" }

REALTIME_KEYWORDS ==
    { "current", "latest", "today", "now", "right now", "this week",
      "this month", "recent", "trading", "market cap", "stock" }
    \cup UNION { API_INTENT_KEYWORDS[i].keywords : i \in 1..Len(API_INTENT_KEYWORDS) }

COMPLEX_MARKERS ==
    { "write a detailed", "write an essay", "write a report",
      "write a paper", "write an article", "draft a",
      "comprehensive analysis", "detailed analysis", "in-depth analysis",
      "analyze in detail", "deep dive into", "compare and contrast",
      "compare all", "differences between", "similarities and differences",
      "step-by-step tutorial", "step by step", "walk me through",
      "guide me through", "explain step by step", "explain in depth",
      "explain thoroughly", "explain comprehensively",
      "provide a detailed explanation", "go into detail", "quantum",
      "derive the", "prove that", "proof of", "theorem",
      "algorithm analysis", "big o notation", "differential equation",
      "integral of", "list all", "enumerate all", "every single",
      "all possible", "write a story", "write a poem",
      "create a narrative", "research on", "literature review",
      "survey of" }

SPECIALIZED_DOMAINS ==
    { "quantum chromodynamics", "string theory", "general relativity",
      "thermodynamics", "organic chemistry", "topology", "number theory",
      "abstract algebra", "differential geometry", "complex analysis",
      "blockchain consensus", "zero-knowledge proof",
      "compiler optimization", "kernel development" }

UNCERTAINTY_PHRASES ==
    { "i don't know", "i don't", "i'm not sure", "not sure", "i cannot",
      "i can't", "i cannot answer", "i'm unable to", "unable to help",
      "cannot provide", "can't provide", "i don't have information",
      "don't have information", "i don't have access", "don't have access",
      "beyond my knowledge", "i lack", "insufficient information",
      "i apologize", "i'm sorry", "sorry, i", "unfortunately, i",
      "as an ai", "as a language model", "i'm just an ai" }

MAX_LOCAL_WORD_COUNT == 150

(***************************************************************************)
(* heuristics.py : classify_query_type, detect_api_intent,                 *)
(*                 response_shows_uncertainty                              *)
(***************************************************************************)
Classification(route, reason) == [route |-> route, reason |-> reason]

\* classify_query_type that tests the specialized domains before the
\* real-time keywords
classify_query_type_DomainFirst(p) ==
    IF IsBlank(p) THEN Classification("LOCAL", "empty_prompt")
    ELSE LET lowered    == Lower(p)
             word_count == Cardinality(Split(p))
         IN  IF ContainsAny(lowered, SPECIALIZED_DOMAINS)
               THEN Classification("CLOUD", "specialized_domain")
             ELSE IF ContainsAny(lowered, REALTIME_KEYWORDS)
               THEN Classification("API_CHECK", "needs_realtime_data")
             ELSE IF ContainsAny(lowered, COMPLEX_MARKERS)
               THEN Classification("CLOUD", "too_complex_for_small_model")
             ELSE IF word_count > MAX_LOCAL_WORD_COUNT
               THEN Classification("CLOUD", "prompt_too_long")
             ELSE Classification("LOCAL", "default_energy_saving")

\* classify_query_type with the length test off by one (>= for >)
classify_query_type_AtLeast(p) ==
    IF IsBlank(p) THEN Classification("LOCAL", "empty_prompt")
    ELSE LET lowered    == Lower(p)
             word_count == Cardinality(Split(p))
         IN  IF ContainsAny(lowered, REALTIME_KEYWORDS)
               THEN Classification("API_CHECK", "needs_realtime_data")
             ELSE IF ContainsAny(lowered, SPECIALIZED_DOMAINS)
               THEN Classification("CLOUD", "specialized_domain")
             ELSE IF ContainsAny(lowered, COMPLEX_MARKERS)
               THEN Classification("CLOUD", "too_complex_for_small_model")
             ELSE IF word_count >= MAX_LOCAL_WORD_COUNT
               THEN Classification("CLOUD", "prompt_too_long")
             ELSE Classification("LOCAL", "default_energy_saving")

\* classify_query_type without the length test
classify_query_type_NoLengthTest(p) ==
    IF IsBlank(p) THEN Classification("LOCAL", "empty_prompt")
    ELSE LET lowered == Lower(p)
         IN  IF ContainsAny(lowered, REALTIME_KEYWORDS)
               THEN Classification("API_CHECK", "needs_realtime_data")
             ELSE IF ContainsAny(lowered, SPECIALIZED_DOMAINS)
               THEN Classification("CLOUD", "specialized_domain")
             ELSE IF ContainsAny(lowered, COMPLEX_MARKERS)
               THEN Classification("CLOUD", "too_complex_for_small_model")
             ELSE Classification("LOCAL", "default_energy_saving")

\* classify_query_type that short-circuits on the empty string only
classify_query_type_EmptyOnly(p) ==
    IF p = "" THEN Classification("LOCAL", "empty_prompt")
    ELSE LET lowered    == Lower(p)
             word_count == Cardinality(Split(p))
         IN  IF ContainsAny(lowered, REALTIME_KEYWORDS)
               THEN Classification("API_CHECK", "needs_realtime_data")
             ELSE IF ContainsAny(lowered, SPECIALIZED_DOMAINS)
               THEN Classification("CLOUD", "specialized_domain")
             ELSE IF ContainsAny(lowered, COMPLEX_MARKERS)
               THEN Classification("CLOUD", "too_complex_for_small_model")
             ELSE IF word_count > MAX_LOCAL_WORD_COUNT
               THEN Classification("CLOUD", "prompt_too_long")
             ELSE Classification("LOCAL", "default_energy_saving")

classify_query_type(p) ==
    IF IsBlank(p) THEN Classification("LOCAL", "empty_prompt")
    ELSE LET lowered    == Lower(p)
             word_count == Cardinality(Split(p))
         IN  IF ContainsAny(lowered, REALTIME_KEYWORDS)
               THEN Classification("API_CHECK", "needs_realtime_data")
             ELSE IF ContainsAny(lowered, SPECIALIZED_DOMAINS)
               THEN Classification("CLOUD", "specialized_domain")
             ELSE IF ContainsAny(lowered, COMPLEX_MARKERS)
               THEN Classification("CLOUD", "too_complex_for_small_model")
             ELSE IF word_count > MAX_LOCAL_WORD_COUNT
               THEN Classification("CLOUD", "prompt_too_long")
             ELSE Classification("LOCAL", "default_energy_saving")

\* detect_api_intent that scans the groups in the order news, crypto, weather
detect_api_intent_NewsFirst(p) ==
    IF IsBlank(p) THEN None
    ELSE LET lowered == Lower(p)
             hits == { i \in 1..Len(API_INTENT_KEYWORDS) :
                         ContainsAny(lowered, API_INTENT_KEYWORDS[i].keywords) }
         IN  IF hits = {} THEN None
             ELSE API_INTENT_KEYWORDS[CHOOSE i \in hits : \A j \in hits : i >= j].intent

detect_api_intent(p) ==
    IF IsBlank(p) THEN None
    ELSE LET lowered == Lower(p)
             hits == { i \in 1..Len(API_INTENT_KEYWORDS) :
                         ContainsAny(lowered, API_INTENT_KEYWORDS[i].keywords) }
         IN  IF hits = {} THEN None
             ELSE API_INTENT_KEYWORDS[CHOOSE i \in hits : \A j \in hits : i <= j].intent

\* response_shows_uncertainty that flags only the empty text
response_shows_uncertainty_EmptyOnly(response) ==
    Len(Strip(Lower(response.text))) = 0

\* response_shows_uncertainty that matches the phrases case-sensitively
response_shows_uncertainty_CaseSensitive(response) ==
    LET text == Strip(response.text)
    IN  IF Len(text) = 0 THEN TRUE
        ELSE ContainsAny(text, UNCERTAINTY_PHRASES)

response_shows_uncertainty(response) ==
    LET text == Strip(Lower(response.text))
    IN  IF Len(text) = 0 THEN TRUE
        ELSE ContainsAny(text, UNCERTAINTY_PHRASES)

(***************************************************************************)
(* prompts.py : get_system_prompt_local, build_local_prompt                *)
(* (every caller passes allow_richer_context=False and no risk hint)       *)
(***************************************************************************)
LOCAL_GUIDELINES ==
    "CANON KNOWLEDGE PRINCIPLE:\n  - ALWAYS be confident when aske"
    \o "d about YOUR IDENTITY (who you are, your mission, SEVEN's go"
    \o "als). This is YOUR most certain knowledge.\n  - For questions"
    \o " about CANON/WELL-KNOWN facts (scientific laws, mathematical"
    \o " theorems, historical dates, geography, programming fundamen"
    \o "tals), you may answer fully and confidently.\n  - For questio"
    \o "ns about UNCERTAIN/NON-PUBLIC knowledge (celebrities, pop cu"
    \o "lture, recent events, specific people/companies, niche topic"
    \o "s), give minimal answer or decline.\n  - When in doubt about "
    \o "whether something is canon knowledge, err on the side of cau"
    \o "tion.\nRESPONSE LENGTH: Respond in ONE short sentence to avoi"
    \o "d speculation.\nDECLINE PROTOCOL: If you lack confidence or k"
    \o "nowledge on external topics, respond with EXACTLY: \"I'm not "
    \o "sure.\" (This phrase triggers automatic escalation to a more "
    \o "capable model.) EXCEPTION: Never decline when asked about yo"
    \o "ur own identity or SEVEN's mission - always answer these con"
    \o "fidently.\nFABRICATION RULE: NEVER invent facts about people,"
    \o " organizations, or current events. Better to decline than to"
    \o " guess.\nENERGY EFFICIENCY: Concise answers save energy and r"
    \o "educe hallucination risk."

SYSTEM_PROMPT_LOCAL ==
    "You are SEVEN Local (Sustainable Energy Via Efficient Neural"
    \o "-routing for SDG 7). Your mission is advancing UN SDG Goal 7"
    \o " (affordable and clean energy) through energy-efficient AI r"
    \o "outing. Be CONFIDENT when introducing yourself and explainin"
    \o "g SEVEN's mission. For other topics: be concise, accurate, a"
    \o "nd energy-efficient. If you lack confidence on non-identity "
    \o "questions, respond with exactly: \"I'm not sure.\""
get_system_prompt_local == SYSTEM_PROMPT_LOCAL

build_local_prompt(user_query, api_data) ==
    LET api_block ==
            IF api_data # None /\ ~IsBlank(api_data)
              THEN "\nREAL-TIME DATA (use this to answer):\n"
                   \o Strip(api_data) \o "\n"
              ELSE ""
    IN  "GUIDELINES:\n" \o LOCAL_GUIDELINES \o "\n" \o api_block
        \o "\nUSER QUESTION: " \o user_query \o "\n\nYOUR RESPONSE:"

(***************************************************************************)
(* Results of a call: a returned value or a raised exception.              *)
(***************************************************************************)
\* `cause` is the exception named by `raise ... from`
Exc(type, msg, cause) == [type |-> type, msg |-> msg, cause |-> cause]

Returned(value) == [ok |-> TRUE, value |-> value]

Raised(exc) == [ok |-> FALSE, exc |-> exc]

(***************************************************************************)
(* cloud_model.py : ask_cloud.  `reply` is what the OpenAI client does for *)
(* the single request: the credential is missing, the request raises, or a *)
(* completion object comes back.                                           *)
(***************************************************************************)
DEFAULT_OPENAI_MODEL == "gpt-4o-mini"

\* an Optional[int] that holds an integer
SomeInt(n) == [int |-> n]

\* completion.usage: NoValue when the completion has no usage object, else
\* an object whose total_tokens is NoValue or an integer
CloudReplies ==
    { [kind |-> "missing_key"],
      [kind |-> "request_failed", error |-> "Connection error."],
      [kind |-> "completion", model |-> "gpt-4o-mini-2024-07-18",
       choices |-> << >>, usage |-> NoValue],
      [kind |-> "completion", model |-> "gpt-4o-mini-2024-07-18",
       choices |-> << [content |-> None] >>, usage |-> NoValue],
      [kind |-> "completion", model |-> None,
       choices |-> << [content |-> " Paris is the capital of France.\n"] >>,
       usage |-> [total_tokens |-> SomeInt(21)]] }

ask_cloud(p, sys, reply) ==
    IF IsBlank(p)
      THEN Raised(Exc("ValueError", "Prompt must be a non-empty string.",
                      NoValue))
    ELSE IF reply.kind = "missing_key"
      THEN Raised(Exc("CloudModelError",
                      "Missing OPENAI_API_KEY environment variable.", NoValue))
    ELSE IF reply.kind = "request_failed"
      THEN Raised(Exc("CloudModelError",
                      "OpenAI request failed: " \o reply.error,
                      Exc("APIConnectionError", reply.error, NoValue)))
    ELSE IF Len(reply.choices) = 0
      THEN Raised(Exc("IndexError", "list index out of range", NoValue))
    ELSE LET content == reply.choices[1].content
             text    == IF content # None /\ content # "" THEN content ELSE ""
         IN  Returned([ type   |-> "CloudModelResponse",
                        prompt |-> p,
                        text   |-> Strip(text),
                        model  |-> IF reply.model # None /\ reply.model # ""
                                     THEN reply.model ELSE DEFAULT_OPENAI_MODEL,
                        tokens_used |-> IF reply.usage = NoValue THEN NoValue
                                        ELSE reply.usage.total_tokens,
                        energy |-> NoValue ])

(***************************************************************************)
(* JSON values of the cheap backend's wire contract.  A value carries its  *)
(* JSON type in `json`; JsonAbsent stands for a key the object lacks, and  *)
(* NotJson for a body on which response.json() raises ValueError.          *)
(***************************************************************************)
JsonNull == [json |-> "null"]

JsonNumber == [json |-> "number"]

JsonInt(n) == [json |-> "number", num |-> n]

JsonString(s) == [json |-> "string", str |-> s]

JsonArray(items) == [json |-> "array", items |-> items]

JsonAbsent == [json |-> "absent"]

NotJson == [json |-> "invalid"]

\* {"choices": [{"message": {"content": content}}],
\*  "usage": {"total_tokens": total_tokens}}
ChatCompletion(content, total_tokens) ==
    [ json    |-> "object",
      choices |-> JsonArray(<< [ json    |-> "object",
                                 message |-> [ json    |-> "object",
                                               content |-> content ] ] >>),
      usage   |-> [json |-> "object", total_tokens |-> total_tokens] ]

\* {"choices": choices}
ChoicesOnly(choices) ==
    [ json |-> "object", choices |-> choices,
      usage |-> [json |-> "object", total_tokens |-> JsonAbsent] ]

\* {"error": error}, or {} when error is JsonAbsent
ErrorBody(error) == [json |-> "object", error |-> error]

(***************************************************************************)
(* Python int(text) and float(text) for the texts of the environment and   *)
(* of the payloads drawn below: an optional sign and decimal digits, with  *)
(* at most three decimals for float, which is returned in milliseconds.    *)
(***************************************************************************)
Digits == "0123456789"

IsDigit(c) == \E d \in 1..10 : CharAt(Digits, d) = c

DigitValue(c) == (CHOOSE d \in 1..10 : CharAt(Digits, d) = c) - 1

AllDigits(s) == \A i \in 1..Len(s) : IsDigit(CharAt(s, i))

RECURSIVE DigitsValue(_)
DigitsValue(s) ==
    IF Len(s) = 0 THEN 0
    ELSE 10 * DigitsValue(SubSeq(s, 1, Len(s) - 1))
            + DigitValue(CharAt(s, Len(s)))

Unsigned(t) ==
    IF Len(t) > 0 /\ CharAt(t, 1) \in { "-", "+" } THEN SubSeq(t, 2, Len(t))
    ELSE t

Signed(t, n) == IF Len(t) > 0 /\ CharAt(t, 1) = "-" THEN 0 - n ELSE n

int(text) ==
    LET t == Strip(text)
        u == Unsigned(t)
    IN  IF Len(u) > 0 /\ AllDigits(u) THEN Returned(Signed(t, DigitsValue(u)))
        ELSE Raised(Exc("ValueError",
                        "invalid literal for int() with base 10", NoValue))

float_ms(text) ==
    LET t     == Strip(text)
        u     == Unsigned(t)
        dots  == { i \in 1..Len(u) : CharAt(u, i) = "." }
        dot   == IF dots = {} THEN Len(u) + 1
                 ELSE CHOOSE i \in dots : \A j \in dots : i <= j
        whole == SubSeq(u, 1, dot - 1)
        frac  == SubSeq(u, dot + 1, Len(u))
        milli == SubSeq(frac \o "000", 1, 3)
    IN  IF /\ Cardinality(dots) <= 1
           /\ Len(whole) + Len(frac) > 0
           /\ AllDigits(whole) /\ AllDigits(frac)
          THEN Returned(Signed(t, 1000 * DigitsValue(whole)
                                    + DigitsValue(milli)))
          ELSE Raised(Exc("ValueError",
                          "could not convert string to float", NoValue))

(***************************************************************************)
(* local_model.py : configuration, _parse_response, _should_retry          *)
(***************************************************************************)
DEFAULT_MODEL == "Llama-3.2-1B-Instruct-Hybrid"

\* DEFAULT_TIMEOUT = 30.0 seconds, in milliseconds
DEFAULT_TIMEOUT == 30000

DEFAULT_MAX_RETRIES == 2

\* DEFAULT_BACKOFF = 0.5 seconds, in milliseconds
DEFAULT_BACKOFF == 500

LemonadeClientError(msg, cause) ==
    Raised(Exc("LemonadeClientError", msg, cause))

\* e is the environment; a variable that is not set holds None
\* _timeout: float(raw_timeout) if raw_timeout else DEFAULT_TIMEOUT; the
\* conversion is not guarded, so its ValueError leaves as it is
timeout_seconds(e) ==
    IF e.LEMONADE_TIMEOUT_SECONDS \in { None, "" } THEN Returned(DEFAULT_TIMEOUT)
    ELSE float_ms(e.LEMONADE_TIMEOUT_SECONDS)

max_retries(e) ==
    IF e.LEMONADE_MAX_RETRIES = None THEN Returned(DEFAULT_MAX_RETRIES)
    ELSE LET r == int(e.LEMONADE_MAX_RETRIES)
         IN  IF r.ok THEN r
             ELSE LemonadeClientError("LEMONADE_MAX_RETRIES must be an integer.",
                                      r.exc)

backoff_seconds(e) ==
    IF e.LEMONADE_BACKOFF_SECONDS = None THEN Returned(DEFAULT_BACKOFF)
    ELSE LET r == float_ms(e.LEMONADE_BACKOFF_SECONDS)
         IN  IF r.ok THEN r
             ELSE LemonadeClientError("LEMONADE_BACKOFF_SECONDS must be a float.",
                                      r.exc)

\* int(total_tokens) of _parse_response, for a total_tokens that is not None
int_of_json(v) ==
    IF v.json = "number" THEN Returned(v.num)
    ELSE IF v.json = "string" THEN int(v.str)
    ELSE Raised(Exc("TypeError", "int() argument must be a string or a number",
                    NoValue))

parse_response(data, p) ==
    IF data.json # "object"
      THEN Raised(Exc("AttributeError", "object has no attribute 'get'",
                      NoValue))
    ELSE IF data.choices.json # "array" \/ Len(data.choices.items) = 0
      THEN LemonadeClientError("Lemonade response missing 'choices'.", NoValue)
    ELSE LET message == data.choices.items[1].message
             usage   == IF data.usage.json = "object" THEN data.usage
                        ELSE [json |-> "object", total_tokens |-> JsonAbsent]
             total_tokens == usage.total_tokens
             counted == IF total_tokens \in { JsonAbsent, JsonNull }
                          THEN Returned(NoValue)
                        ELSE LET n == int_of_json(total_tokens)
                             IN  IF n.ok THEN Returned(SomeInt(n.value)) ELSE n
         IN  IF message.json # "object" \/ message.content = JsonAbsent
               THEN LemonadeClientError(
                        "Lemonade response missing message content.", NoValue)
             ELSE IF message.content = JsonNull
               THEN LemonadeClientError(
                        "Lemonade response contained null content.", NoValue)
             ELSE IF ~counted.ok
               THEN LemonadeClientError(
                        "Invalid token count in Lemonade response.", counted.exc)
             ELSE IF message.content.json # "string"
               THEN Raised(Exc("AttributeError",
                               "'int' object has no attribute 'strip'", NoValue))
             ELSE Returned([ type        |-> "LocalModelResponse",
                             prompt      |-> p,
                             text        |-> Strip(message.content.str),
                             model       |-> DEFAULT_MODEL,
                             tokens_used |-> counted.value,
                             energy      |-> NoValue ])

should_retry(status_code) == 500 <= status_code /\ status_code < 600

(***************************************************************************)
(* local_model.py : ask_local.  An exchange is what one requests.post does: *)
(* it raises a RequestException, or a response comes back with a status,   *)
(* a body (parsed JSON, or NotJson) and the raw text of the body.          *)
(***************************************************************************)
TransportError(error) == [kind |-> "transport_error", error |-> error]

HttpResponse(status, body, text) ==
    [kind |-> "http", status |-> status, body |-> body, text |-> text]

\* lines 434-443: the message of an HTTP error response
error_message(x) ==
    LET error_payload ==
            IF x.body = NotJson
              THEN ErrorBody([json |-> "object", message |-> JsonString(x.text)])
              ELSE x.body
    IN  IF error_payload.json # "object"
          THEN Raised(Exc("AttributeError", "object has no attribute 'get'",
                          NoValue))
        ELSE LET error == IF error_payload.error = JsonAbsent
                            THEN [json |-> "object", message |-> JsonAbsent]
                            ELSE error_payload.error
             IN  IF error.json # "object"
                   THEN Raised(Exc("AttributeError",
                                   "object has no attribute 'get'", NoValue))
                 ELSE IF error.message = JsonAbsent
                   THEN Returned("HTTP " \o ToString(x.status))
                 ELSE Returned(error.message.str)

Retry == [retry |-> TRUE]

Leave(r) == [retry |-> FALSE, result |-> r]

\* attempt_result that asks for another attempt after a 200 whose body
\* cannot be parsed, when attempts remain
attempt_result_RetriesParseFailure(p, x, may_retry) ==
    IF x.kind = "transport_error"
      THEN IF may_retry THEN Retry
           ELSE Leave(LemonadeClientError(
                          "Lemonade request failed: " \o x.error,
                          Exc("RequestException", x.error, NoValue)))
    ELSE IF x.status >= 400
      THEN LET message == error_message(x)
           IN  IF ~message.ok THEN Leave(message)
               ELSE IF should_retry(x.status) /\ may_retry THEN Retry
               ELSE Leave(LemonadeClientError(
                              "Lemonade Server error: " \o message.value,
                              NoValue))
    ELSE IF x.body = NotJson
      THEN IF may_retry THEN Retry
           ELSE Leave(LemonadeClientError(
                          "Failed to parse Lemonade JSON response.",
                          Exc("ValueError", "Expecting value", NoValue)))
    ELSE LET r == parse_response(x.body, p)
         IN  IF ~r.ok /\ may_retry THEN Retry ELSE Leave(r)

\* one iteration of the loop of ask_local (lines 412-460) on the exchange
\* x, where may_retry is `attempt < max_attempts`: the iteration asks for
\* another attempt or leaves ask_local with a result
attempt_result(p, x, may_retry) ==
    IF x.kind = "transport_error"
      THEN IF may_retry THEN Retry
           ELSE Leave(LemonadeClientError(
                          "Lemonade request failed: " \o x.error,
                          Exc("RequestException", x.error, NoValue)))
    ELSE IF x.status >= 400
      THEN LET message == error_message(x)
           IN  IF ~message.ok THEN Leave(message)
               ELSE IF should_retry(x.status) /\ may_retry THEN Retry
               ELSE Leave(LemonadeClientError(
                              "Lemonade Server error: " \o message.value,
                              NoValue))
    ELSE IF x.body = NotJson
      THEN Leave(LemonadeClientError(
                     "Failed to parse Lemonade JSON response.",
                     Exc("ValueError", "Expecting value", NoValue)))
    ELSE Leave(parse_response(x.body, p))

\* ask_local seen from the router: `reply` is the exchange that ends the
\* retry loop (the one after which no attempt is left or asked for)
LocalReplies ==
    { TransportError("Connection refused"),
      HttpResponse(404, ErrorBody(JsonAbsent), "{}"),
      HttpResponse(200, ChatCompletion(JsonNull, JsonAbsent), ""),
      HttpResponse(200, ChatCompletion(JsonNumber, JsonAbsent), ""),
      HttpResponse(200, ChatCompletion(JsonString(""), JsonAbsent), ""),
      HttpResponse(200, ChatCompletion(JsonString(" Paris.\n"), JsonAbsent), ""),
      HttpResponse(200, ChatCompletion(JsonString("I'm not sure."), JsonAbsent),
                   "") }

ask_local(p, sys, reply) ==
    IF IsBlank(p)
      THEN Raised(Exc("ValueError", "Prompt must be a non-empty string.",
                      NoValue))
    ELSE attempt_result(p, reply, FALSE).result

(***************************************************************************)
(* api_check.py : _classify_api_need, _collect_api_data, run_api_check     *)
(***************************************************************************)
classify_api_need(p) ==
    LET i == detect_api_intent(p)
    IN  IF i # None /\ i # "" THEN << TRUE, << i >> >> ELSE << FALSE, << >> >>

\* what the provider of api_tools.py does when called: it hands back a
\* summary or a descriptive failure text, or it raises
ProviderOutcomes ==
    { [kind |-> "text", text |-> "Clear, 15 deg C"],
      [kind |-> "text", text |-> "data unavailable (set API key)."],
      [kind |-> "raises", error |-> "timed out"] }

Capitalize(api) ==
    CASE api = "weather" -> "Weather"
      [] api = "crypto"  -> "Crypto"
      [] api = "news"    -> "News"

\* collect_api_data that drops the entry of a provider that raised
RECURSIVE collect_api_data_DropsFailure(_, _, _)
collect_api_data_DropsFailure(p, apis, provider) ==
    IF Len(apis) = 0 THEN << >>
    ELSE LET api == Head(apis)
             entry ==
                 IF provider.kind = "raises" THEN << >>
                 ELSE IF api \in { "weather", "crypto", "news" }
                   THEN << Capitalize(api) \o ": " \o provider.text >>
                 ELSE << >>
         IN  entry \o collect_api_data_DropsFailure(p, Tail(apis), provider)

RECURSIVE collect_api_data(_, _, _)
collect_api_data(p, apis, provider) ==
    IF Len(apis) = 0 THEN << >>
    ELSE LET api == Head(apis)
             entry ==
                 IF provider.kind = "raises"
                   THEN << Capitalize(api) \o " API error: " \o provider.error >>
                 ELSE IF api \in { "weather", "crypto", "news" }
                   THEN << Capitalize(api) \o ": " \o provider.text >>
                 ELSE << >>
         IN  entry \o collect_api_data(p, Tail(apis), provider)

RECURSIVE JoinLines(_)
JoinLines(lines) ==
    IF Len(lines) = 0 THEN ""
    ELSE IF Len(lines) = 1 THEN lines[1]
    ELSE lines[1] \o "\n" \o JoinLines(Tail(lines))

ApiDirectResponse(p, context) ==
    [ type |-> "LocalModelResponse", prompt |-> p, text |-> context,
      model |-> "api-direct", tokens_used |-> NoValue, energy |-> NoValue ]

FALLBACK_NOTE ==
    "\n\n(Note: Real-time data APIs were unavailable, respond with general knowledge.)"

\* the prompt run_api_check sends to the cheap backend after the providers
\* were called (api_check.py lines 86-94 and 114-121)
api_check_request(p, results) ==
    IF Len(results) > 0
      THEN build_local_prompt(p, JoinLines(results))
      ELSE build_local_prompt(p \o FALLBACK_NOTE, None)

\* run_api_check_result without the handler of LemonadeClientError
run_api_check_result_Propagates(p, results, r) == r

\* what run_api_check does with the result r of that call
\* (api_check.py lines 96-112 and 123-128)
run_api_check_result(p, results, r) ==
    IF Len(results) > 0 /\ ~r.ok /\ r.exc.type = "LemonadeClientError"
      THEN Returned(ApiDirectResponse(p, JoinLines(results)))
      ELSE r

(***************************************************************************)
(* router.py : _call_cloud, _attach_cloud_energy, _annotate_local_energy.  *)
(* `estimate` is the result of the energy estimate: an EnergyEstimate, or  *)
(* NoValue when the estimate raised (the exception is logged and dropped). *)
(***************************************************************************)
EnergyEstimates == { NoValue, [source |-> "estimate"] }

attach_cloud_energy(response, estimate) ==
    IF estimate # NoValue THEN [response EXCEPT !.energy = estimate]
    ELSE response

\* annotate_local_energy that hands back an emptied response when the
\* estimate raised
annotate_local_energy_BlanksOnFailure(response, estimate) ==
    IF estimate # NoValue THEN [response EXCEPT !.energy = estimate]
    ELSE [response EXCEPT !.text = ""]

annotate_local_energy(response, estimate) ==
    IF estimate # NoValue THEN [response EXCEPT !.energy = estimate]
    ELSE response

call_cloud(p, sys, reply, estimate) ==
    LET r == ask_cloud(p, sys, reply)
    IN  IF r.ok THEN Returned(attach_cloud_energy(r.value, estimate)) ELSE r

(***************************************************************************)
(* router.py : route_prompt, one action per step of the call.              *)
(***************************************************************************)
RoutePrompts ==
    { "", " \n", "hi", "What's the weather in Paris?",
      "What is happening right now?", "Explain topology",
      "Latest BTC price" }

SystemPrompts == { None, "Be brief." }

\* temperature and max_tokens as the caller may pass them: the defaults of
\* route_prompt (0.7 and 512, router.py lines 67-68) or values of its own
Samplings ==
    { [temperature |-> 7, max_tokens |-> 512],
      [temperature |-> 0, max_tokens |-> 64] }

inputs == << prompt, use_cloud, enable_realtime_apis, auto_escalate,
             observer, system_prompt, temperature, max_tokens >>

\* the state of one backend client call (the locals of ask_local and the
\* traffic it causes); route_prompt sees a client call as one step
client == << env, attempt, max_attempts, backoff, sleeps, requests >>

\* no backend client call is in progress
ClientIdle ==
    /\ env = NoValue /\ attempt = 0 /\ max_attempts = 0 /\ backoff = 0
    /\ sleeps = << >> /\ requests = << >>

(***************************************************************************)
(* The state of the process outside the frame of a call: the module-level  *)
(* tables (heuristics.py lines 31-175, energy.py lines 87-226) and default *)
(* profiles (router.py lines 56-59), and a second call of route_prompt in  *)
(* another thread.  A profile is named by its slug.                        *)
(***************************************************************************)
LOCAL_PROFILES ==
    { "npu_ryzen_ai", "npu_apple_ane", "gpu_laptop_high", "gpu_a100",
      "gpu_h100", "cpu_legacy" }

CLOUD_PROFILES ==
    { "gpt4o_short", "cloud_generic", "gemini_text", "gpt5_instant",
      "gpt5_thinking", "claude_sonnet_short", "claude_sonnet_medium",
      "claude_sonnet_long" }

DEFAULT_LOCAL_PROFILE == "npu_ryzen_ai"

DEFAULT_CLOUD_PROFILE == "gpt4o_short"

\* the module-level objects as they are once the modules are imported
ModuleTables ==
    [ API_INTENT_KEYWORDS   |-> API_INTENT_KEYWORDS,
      REALTIME_KEYWORDS     |-> REALTIME_KEYWORDS,
      COMPLEX_MARKERS       |-> COMPLEX_MARKERS,
      SPECIALIZED_DOMAINS   |-> SPECIALIZED_DOMAINS,
      UNCERTAINTY_PHRASES   |-> UNCERTAINTY_PHRASES,
      LOCAL_PROFILES        |-> LOCAL_PROFILES,
      CLOUD_PROFILES        |-> CLOUD_PROFILES,
      LOCAL_PROFILE         |-> DEFAULT_LOCAL_PROFILE,
      CLOUD_PROFILE         |-> DEFAULT_CLOUD_PROFILE ]

\* the chat widget of the host application and its prompt input
chat == << submit_ready, input_text, messages, worker, posted, handled >>

\* no chat widget is mounted: route_prompt is called as a library
NoChat ==
    /\ submit_ready = TRUE /\ input_text = "" /\ messages = << >>
    /\ worker = "none" /\ posted = << >> /\ handled = 0

process == << tables, parked, running, chat >>

\* one call of route_prompt, no other call in the process
Alone == tables = ModuleTables /\ parked = NoValue /\ running = 1 /\ NoChat

CallRecord(op, p, sys, r) ==
    [op |-> op, prompt |-> p, system_prompt |-> sys, result |-> r]

\* the call ask_cloud(prompt, system_prompt=system_prompt,
\* temperature=temperature, max_tokens=max_tokens) that _call_cloud makes,
\* with what ask_cloud itself returned or raised
CloudCallRecord(reply) ==
    [ op |-> "ask_cloud", prompt |-> prompt, system_prompt |-> system_prompt,
      temperature |-> temperature, max_tokens |-> max_tokens,
      result |-> ask_cloud(prompt, system_prompt, reply) ]

\* on_status_change(code) for each code, when an observer is supplied
Notify(codes) == IF observer THEN statuses \o codes ELSE statuses

CloudCalls == { i \in 1..Len(calls) : calls[i].op = "ask_cloud" }

LocalCalls == { i \in 1..Len(calls) : calls[i].op = "ask_local" }

ProviderCalls == { i \in 1..Len(calls) : calls[i].op = "provider" }

ClassifyCalls == { i \in 1..Len(calls) : calls[i].op = "classify_query_type" }

Init ==
    /\ pc = "start"
    /\ prompt \in RoutePrompts
    /\ use_cloud \in BOOLEAN
    /\ enable_realtime_apis \in BOOLEAN
    /\ auto_escalate \in BOOLEAN
    /\ observer \in BOOLEAN
    /\ system_prompt \in SystemPrompts
    /\ \E s \in Samplings :
         temperature = s.temperature /\ max_tokens = s.max_tokens
    /\ classification = NoValue
    /\ intent = None
    /\ api_results = << >>
    /\ local_response = NoValue
    /\ local_exc = NoValue
    /\ cloud_exc = NoValue
    /\ calls = << >>
    /\ statuses = << >>
    /\ outcome = NoValue
    /\ ClientIdle
    /\ Alone

\* RouteValidate with a check that rejects only the empty string
RouteValidate_EmptyOnly ==
    /\ pc = "start"
    /\ IF prompt = ""
         THEN /\ outcome' = Raised(Exc("ValueError",
                                       "Prompt must be a non-empty string.",
                                       NoValue))
              /\ pc' = "done"
         ELSE /\ outcome' = outcome
              /\ pc' = "dispatch"
    /\ UNCHANGED << inputs, client, process, classification, intent, api_results,
                    local_response, local_exc, cloud_exc, calls, statuses >>

\* router.py lines 100-108
RouteValidate ==
    /\ pc = "start"
    /\ IF IsBlank(prompt)
         THEN /\ outcome' = Raised(Exc("ValueError",
                                       "Prompt must be a non-empty string.",
                                       NoValue))
              /\ pc' = "done"
         ELSE /\ outcome' = outcome
              /\ pc' = "dispatch"
    /\ UNCHANGED << inputs, client, process, classification, intent, api_results,
                    local_response, local_exc, cloud_exc, calls, statuses >>

\* a direct call of the expensive backend whose result is the result of
\* route_prompt (router.py lines 113-121 and 135-143)
DirectCloud ==
    \E reply \in CloudReplies, estimate \in EnergyEstimates :
        LET r == call_cloud(prompt, system_prompt, reply, estimate)
        IN  /\ statuses' = Notify(<< "cloud_processing" >>)
            /\ calls' = Append(calls, CloudCallRecord(reply))
            /\ cloud_exc' = IF r.ok THEN NoValue ELSE r.exc
            /\ outcome' = r
            /\ pc' = "done"

\* router.py lines 110-121
RouteForcedCloud ==
    /\ pc = "dispatch"
    /\ use_cloud
    /\ DirectCloud
    /\ UNCHANGED << inputs, client, process, classification, intent, api_results,
                    local_response, local_exc >>

\* RouteClassify taken whatever use_cloud says
RouteClassify_IgnoresUseCloud ==
    /\ pc = "dispatch"
    /\ classification' = classify_query_type(prompt)
    /\ calls' = Append(calls, CallRecord("classify_query_type", prompt,
                                         None, NoValue))
    /\ pc' = "classified"
    /\ UNCHANGED << inputs, client, process, intent, api_results, local_response, local_exc,
                    cloud_exc, statuses, outcome >>

\* RouteClassify that keeps the classification in a module-level cache and
\* reuses it for the next call
RouteClassify_SharedCache ==
    /\ pc = "dispatch"
    /\ ~use_cloud
    /\ classification' = IF "cache" \in DOMAIN tables THEN tables["cache"]
                         ELSE classify_query_type(prompt)
    /\ tables' = [ k \in DOMAIN tables \cup { "cache" } |->
                     IF k = "cache" THEN classification' ELSE tables[k] ]
    /\ calls' = Append(calls, CallRecord("classify_query_type", prompt,
                                         None, NoValue))
    /\ pc' = "classified"
    /\ UNCHANGED << inputs, client, parked, running, chat, intent,
                    api_results, local_response, local_exc, cloud_exc,
                    statuses, outcome >>

\* router.py lines 123-130
RouteClassify ==
    /\ pc = "dispatch"
    /\ ~use_cloud
    /\ classification' = classify_query_type(prompt)
    /\ calls' = Append(calls, CallRecord("classify_query_type", prompt,
                                         None, NoValue))
    /\ pc' = "classified"
    /\ UNCHANGED << inputs, client, process, intent, api_results, local_response, local_exc,
                    cloud_exc, statuses, outcome >>

\* router.py lines 132-143
RoutePreRoutedCloud ==
    /\ pc = "classified"
    /\ classification.route = "CLOUD"
    /\ DirectCloud
    /\ UNCHANGED << inputs, client, process, classification, intent, api_results,
                    local_response, local_exc >>

needs_realtime_data == classification.route = "API_CHECK"

\* RouteLocalStart entered for every route, CLOUD included
RouteLocalStart_AnyRoute ==
    /\ pc = "classified"
    /\ IF needs_realtime_data /\ enable_realtime_apis
         THEN /\ statuses' = Notify(<< "local_starting", "api_fetching" >>)
              /\ pc' = "api_check"
         ELSE /\ statuses' = Notify(<< "local_starting" >>)
              /\ pc' = "plain_local"
    /\ UNCHANGED << inputs, client, process, classification, intent, api_results,
                    local_response, local_exc, cloud_exc, calls, outcome >>

\* RouteLocalStart that augments every API_CHECK prompt, whatever
\* enable_realtime_apis says
RouteLocalStart_AlwaysAugments ==
    /\ pc = "classified"
    /\ classification.route # "CLOUD"
    /\ IF needs_realtime_data
         THEN /\ statuses' = Notify(<< "local_starting", "api_fetching" >>)
              /\ pc' = "api_check"
         ELSE /\ statuses' = Notify(<< "local_starting" >>)
              /\ pc' = "plain_local"
    /\ UNCHANGED << inputs, client, process, classification, intent, api_results,
                    local_response, local_exc, cloud_exc, calls, outcome >>

\* RouteLocalStart that classifies the prompt a second time
RouteLocalStart_Reclassifies ==
    /\ pc = "classified"
    /\ classification.route # "CLOUD"
    /\ IF needs_realtime_data /\ enable_realtime_apis
         THEN /\ statuses' = Notify(<< "local_starting", "api_fetching" >>)
              /\ pc' = "api_check"
         ELSE /\ statuses' = Notify(<< "local_starting" >>)
              /\ pc' = "plain_local"
    /\ calls' = Append(calls, CallRecord("classify_query_type", prompt,
                                         None, NoValue))
    /\ UNCHANGED << inputs, client, process, classification, intent, api_results,
                    local_response, local_exc, cloud_exc, outcome >>

\* RouteLocalStart that reports api_fetching before local_starting
RouteLocalStart_FetchFirst ==
    /\ pc = "classified"
    /\ classification.route # "CLOUD"
    /\ IF needs_realtime_data /\ enable_realtime_apis
         THEN /\ statuses' = Notify(<< "api_fetching", "local_starting" >>)
              /\ pc' = "api_check"
         ELSE /\ statuses' = Notify(<< "local_starting" >>)
              /\ pc' = "plain_local"
    /\ UNCHANGED << inputs, client, process, classification, intent, api_results,
                    local_response, local_exc, cloud_exc, calls, outcome >>

\* router.py lines 145-154 and 161-163: entering the local path
RouteLocalStart ==
    /\ pc = "classified"
    /\ classification.route # "CLOUD"
    /\ IF needs_realtime_data /\ enable_realtime_apis
         THEN /\ statuses' = Notify(<< "local_starting", "api_fetching" >>)
              /\ pc' = "api_check"
         ELSE /\ statuses' = Notify(<< "local_starting" >>)
              /\ pc' = "plain_local"
    /\ UNCHANGED << inputs, client, process, classification, intent, api_results,
                    local_response, local_exc, cloud_exc, calls, outcome >>

final_system_prompt ==
    IF system_prompt # None /\ system_prompt # "" THEN system_prompt
    ELSE get_system_prompt_local

\* the end of a cheap-backend path inside the try block of route_prompt:
\* a response goes on to the annotation, an exception leaves the block
LocalPathEnds(r) ==
    IF r.ok
      THEN /\ local_response' = r.value
           /\ local_exc' = local_exc
           /\ pc' = "annotate"
      ELSE /\ local_response' = local_response
           /\ local_exc' = r.exc
           /\ pc' = "local_raised"

\* router.py lines 165-179
RoutePlainLocal ==
    /\ pc = "plain_local"
    /\ \E reply \in LocalReplies :
         LET optimized_prompt == build_local_prompt(prompt, None)
             r == ask_local(optimized_prompt, final_system_prompt, reply)
         IN  /\ calls' = Append(calls, CallRecord("ask_local", optimized_prompt,
                                                  final_system_prompt, r))
             /\ LocalPathEnds(r)
    /\ UNCHANGED << inputs, client, process, classification, intent, api_results, cloud_exc,
                    statuses, outcome >>

\* api_check.py lines 74-76 (run_api_check, _classify_api_need)
ApiCheckClassify ==
    /\ pc = "api_check"
    /\ intent' = detect_api_intent(prompt)
    /\ calls' = Append(calls, CallRecord("detect_api_intent", prompt,
                                         None, NoValue))
    /\ pc' = IF classify_api_need(prompt)[1] THEN "api_collect"
             ELSE "api_no_intent"
    /\ UNCHANGED << inputs, client, process, classification, api_results, local_response,
                    local_exc, cloud_exc, statuses, outcome >>

\* api_check.py lines 77-83
ApiCheckNoIntent ==
    /\ pc = "api_no_intent"
    /\ \E reply \in LocalReplies :
         LET r == ask_local(prompt, final_system_prompt, reply)
         IN  /\ calls' = Append(calls, CallRecord("ask_local", prompt,
                                                  final_system_prompt, r))
             /\ LocalPathEnds(r)
    /\ UNCHANGED << inputs, client, process, classification, intent, api_results, cloud_exc,
                    statuses, outcome >>

\* api_check.py line 85 (_collect_api_data, lines 46-62)
ApiCheckCollect ==
    /\ pc = "api_collect"
    /\ \E provider \in ProviderOutcomes :
         /\ api_results' = collect_api_data(prompt, classify_api_need(prompt)[2],
                                            provider)
         /\ calls' = Append(calls, [op |-> "provider", api |-> intent,
                                    result |-> provider])
    /\ pc' = "api_synthesis"
    /\ UNCHANGED << inputs, client, process, classification, intent, local_response, local_exc,
                    cloud_exc, statuses, outcome >>

\* ApiCheckSynthesis that asks the cheap backend a second time when the
\* first synthesis call raised
ApiCheckSynthesis_Retries ==
    /\ pc = "api_synthesis"
    /\ \E reply \in LocalReplies :
         LET request == api_check_request(prompt, api_results)
             r == ask_local(request, final_system_prompt, reply)
         IN  /\ calls' = Append(calls, CallRecord("ask_local", request,
                                                  final_system_prompt, r))
             /\ IF ~r.ok /\ LocalCalls = {}
                  THEN UNCHANGED << local_response, local_exc, pc >>
                  ELSE LocalPathEnds(run_api_check_result(prompt, api_results, r))
    /\ UNCHANGED << inputs, client, process, classification, intent, api_results, cloud_exc,
                    statuses, outcome >>

\* api_check.py lines 86-128
ApiCheckSynthesis ==
    /\ pc = "api_synthesis"
    /\ \E reply \in LocalReplies :
         LET request == api_check_request(prompt, api_results)
             r == ask_local(request, final_system_prompt, reply)
         IN  /\ calls' = Append(calls, CallRecord("ask_local", request,
                                                  final_system_prompt, r))
             /\ LocalPathEnds(run_api_check_result(prompt, api_results, r))
    /\ UNCHANGED << inputs, client, process, classification, intent, api_results, cloud_exc,
                    statuses, outcome >>

\* router.py lines 181-185
RouteAnnotate ==
    /\ pc = "annotate"
    /\ \E estimate \in EnergyEstimates :
         local_response' = annotate_local_energy(local_response, estimate)
    /\ pc' = "validate"
    /\ UNCHANGED << inputs, client, process, classification, intent, api_results, local_exc,
                    cloud_exc, calls, statuses, outcome >>

\* RoutePostValidate that escalates every uncertain response, whatever
\* auto_escalate says
RoutePostValidate_IgnoresOption ==
    /\ pc = "validate"
    /\ IF response_shows_uncertainty(local_response)
         THEN /\ statuses' = Notify(<< "local_uncertain_escalating",
                                       "cloud_processing" >>)
              /\ outcome' = outcome
              /\ pc' = "escalate"
         ELSE /\ statuses' = statuses
              /\ outcome' = Returned(local_response)
              /\ pc' = "done"
    /\ UNCHANGED << inputs, client, process, classification, intent, api_results,
                    local_response, local_exc, cloud_exc, calls >>

\* router.py lines 187-192 and 208
RoutePostValidate ==
    /\ pc = "validate"
    /\ IF auto_escalate /\ response_shows_uncertainty(local_response)
         THEN /\ statuses' = Notify(<< "local_uncertain_escalating",
                                       "cloud_processing" >>)
              /\ outcome' = outcome
              /\ pc' = "escalate"
         ELSE /\ statuses' = statuses
              /\ outcome' = Returned(local_response)
              /\ pc' = "done"
    /\ UNCHANGED << inputs, client, process, classification, intent, api_results,
                    local_response, local_exc, cloud_exc, calls >>

\* escalation_outcome without the handler of CloudModelError
escalation_outcome_Propagates(r) == r

\* what route_prompt does with the result r of the escalation call
\* (router.py lines 193-206): a CloudModelError is swallowed
escalation_outcome(r) ==
    IF ~r.ok /\ r.exc.type = "CloudModelError" THEN Returned(local_response)
    ELSE r

\* RouteEscalate that calls the expensive backend again after a failure
RouteEscalate_Retries ==
    /\ pc = "escalate"
    /\ \E reply \in CloudReplies, estimate \in EnergyEstimates :
         LET r == call_cloud(prompt, system_prompt, reply, estimate)
         IN  /\ calls' = Append(calls, CloudCallRecord(reply))
             /\ cloud_exc' = IF r.ok THEN NoValue ELSE r.exc
             /\ outcome' = IF r.ok THEN r ELSE outcome
             /\ pc' = IF r.ok THEN "done" ELSE "escalate"
    /\ UNCHANGED << inputs, client, process, classification, intent, api_results,
                    local_response, local_exc, statuses >>

\* RouteEscalate that hands the expensive backend what the cheap backend
\* got: the guideline prompt and the local identity
RouteEscalate_SendsLocalPrompt ==
    /\ pc = "escalate"
    /\ \E reply \in CloudReplies, estimate \in EnergyEstimates :
         LET optimized_prompt == build_local_prompt(prompt, None)
             r == call_cloud(optimized_prompt, final_system_prompt, reply,
                             estimate)
         IN  /\ calls' = Append(calls,
                    [ op |-> "ask_cloud", prompt |-> optimized_prompt,
                      system_prompt |-> final_system_prompt,
                      temperature |-> temperature, max_tokens |-> max_tokens,
                      result |-> ask_cloud(optimized_prompt,
                                           final_system_prompt, reply) ])
             /\ cloud_exc' = IF r.ok THEN NoValue ELSE r.exc
             /\ outcome' = escalation_outcome(r)
    /\ pc' = "done"
    /\ UNCHANGED << inputs, client, process, classification, intent, api_results,
                    local_response, local_exc, statuses >>

\* router.py lines 193-206
RouteEscalate ==
    /\ pc = "escalate"
    /\ \E reply \in CloudReplies, estimate \in EnergyEstimates :
         LET r == call_cloud(prompt, system_prompt, reply, estimate)
         IN  /\ calls' = Append(calls, CloudCallRecord(reply))
             /\ cloud_exc' = IF r.ok THEN NoValue ELSE r.exc
             /\ outcome' = escalation_outcome(r)
    /\ pc' = "done"
    /\ UNCHANGED << inputs, client, process, classification, intent, api_results,
                    local_response, local_exc, statuses >>

\* fallback_outcome that lets the CloudModelError of the fallback through
fallback_outcome_CloudOnly(exc, r) == r

\* what route_prompt does with the result r of the fallback call
\* (router.py lines 212-223)
fallback_outcome(exc, r) ==
    IF ~r.ok /\ r.exc.type = "CloudModelError"
      THEN Raised(Exc("CloudModelError",
                      "All backends failed. Local: " \o exc.msg
                          \o ", Cloud: " \o r.exc.msg,
                      r.exc))
      ELSE r

\* router.py lines 210-223: except LemonadeClientError
RouteLocalErrorFallback ==
    /\ pc = "local_raised"
    /\ local_exc.type = "LemonadeClientError"
    /\ \E reply \in CloudReplies, estimate \in EnergyEstimates :
         LET r == call_cloud(prompt, system_prompt, reply, estimate)
         IN  /\ calls' = Append(calls, CloudCallRecord(reply))
             /\ cloud_exc' = IF r.ok THEN NoValue ELSE r.exc
             /\ outcome' = fallback_outcome(local_exc, r)
    /\ pc' = "done"
    /\ UNCHANGED << inputs, client, process, classification, intent, api_results,
                    local_response, local_exc, statuses >>

\* router.py line 210: an exception that is not a LemonadeClientError
\* matches no handler and leaves route_prompt
RouteLocalErrorPropagates ==
    /\ pc = "local_raised"
    /\ local_exc.type # "LemonadeClientError"
    /\ outcome' = Raised(local_exc)
    /\ pc' = "done"
    /\ UNCHANGED << inputs, client, process, classification, intent, api_results,
                    local_response, local_exc, cloud_exc, calls, statuses >>

Next ==
    \/ RouteValidate
    \/ RouteForcedCloud
    \/ RouteClassify
    \/ RoutePreRoutedCloud
    \/ RouteLocalStart
    \/ RoutePlainLocal
    \/ ApiCheckClassify
    \/ ApiCheckNoIntent
    \/ ApiCheckCollect
    \/ ApiCheckSynthesis
    \/ RouteAnnotate
    \/ RoutePostValidate
    \/ RouteEscalate
    \/ RouteLocalErrorFallback
    \/ RouteLocalErrorPropagates

Spec == Init /\ [][Next]_vars

(***************************************************************************)
(* Vocabulary of the properties of route_prompt                            *)
(***************************************************************************)
\* two responses agree on everything but the appended energy fields
SameResponse(a, b) ==
    /\ a.type = b.type /\ a.prompt = b.prompt
    /\ a.text = b.text /\ a.model = b.model

\* the outcome o of route_prompt is the result r of a backend call
SameOutcome(o, r) ==
    /\ o.ok = r.ok
    /\ IF r.ok THEN SameResponse(o.value, r.value) ELSE o.exc = r.exc

LastCall == calls[Len(calls)]

\* the error kinds of the backend contract: LocalBackendError, CloudBackendError
BackendErrorTypes == { "LemonadeClientError", "CloudModelError" }

\* calls of a backend that raised something else than its backend error
UntypedFailures ==
    { i \in CloudCalls \cup LocalCalls :
        ~calls[i].result.ok /\ calls[i].result.exc.type \notin BackendErrorTypes }

\* cheap-backend calls that raised LocalBackendError
LocalBackendFailures ==
    { i \in LocalCalls :
        ~calls[i].result.ok /\ calls[i].result.exc.type = "LemonadeClientError" }

IsCombinedError(exc) ==
    /\ exc.type = "CloudModelError"
    /\ exc.cause # NoValue
    /\ exc.cause = cloud_exc
    /\ Contains(exc.msg, "All backends failed.")
    /\ Contains(exc.msg, local_exc.msg)
    /\ Contains(exc.msg, cloud_exc.msg)

(***************************************************************************)
(* C1. In every execution of route_prompt the expensive backend is invoked *)
(* at most once: an escalation call is never followed by another one, and  *)
(* an escalation call and a local-error fallback call never both occur.    *)
(***************************************************************************)
C1_CloudInvokedAtMostOnce == Cardinality(CloudCalls) <= 1

\* an escalation was attempted and failed, and the call is over
C1_Witness ==
    /\ pc = "done"
    /\ local_response # NoValue
    /\ cloud_exc # NoValue
    /\ Cardinality(CloudCalls) = 1

(***************************************************************************)
(* C2. When the cheap-backend path succeeded with an uncertain response,   *)
(* auto-escalation is enabled and the escalation call failed, route_prompt *)
(* returns the cheap-backend response (same text and model) and raises     *)
(* nothing.  The code does this only for a CloudModelError.                *)
(***************************************************************************)
C2_EscalationFailureReturnsLocal ==
    ( /\ pc = "done"
      /\ auto_escalate
      /\ local_response # NoValue
      /\ response_shows_uncertainty(local_response)
      /\ CloudCalls # {}
      /\ ~LastCall.result.ok )
    => /\ outcome.ok
       /\ SameResponse(outcome.value, local_response)

(***************************************************************************)
(* C3 as claimed, for LocalBackendError: whenever a cheap-backend call of  *)
(* the local path (plain or augmented) raised, the expensive backend was   *)
(* called as a fallback.                                                   *)
(***************************************************************************)
C3_EveryLocalErrorFallsBack ==
    (pc = "done" /\ LocalBackendFailures # {}) => CloudCalls # {}

(***************************************************************************)
(* C3, amended.  When a LocalBackendError leaves the local path (the plain *)
(* call, or the call the pipeline makes when no intent was detected), the  *)
(* expensive backend is called once as a fallback: its response is the     *)
(* result, and its CloudBackendError gives a combined error that carries   *)
(* both causes.  A LocalBackendError of the synthesis call does not leave  *)
(* the pipeline: the raw provider data is the cheap-backend response.      *)
(***************************************************************************)
C3_LocalErrorFallback ==
    /\ ( pc = "done" /\ local_exc # NoValue
         /\ local_exc.type = "LemonadeClientError" )
       => /\ Cardinality(CloudCalls) = 1
          /\ LastCall.op = "ask_cloud"
          /\ LastCall.result.ok => SameOutcome(outcome, LastCall.result)
          /\ ( ~LastCall.result.ok
               /\ LastCall.result.exc.type = "CloudModelError" )
             => ( ~outcome.ok /\ IsCombinedError(outcome.exc) )
    /\ ( pc = "done" /\ LocalBackendFailures # {} /\ local_exc = NoValue )
       => /\ intent # None
          /\ local_response.model = "api-direct"
          /\ local_response.text = JoinLines(api_results)

\* the augmented path, no intent: the cheap backend and then the expensive
\* backend failed, and the caller got the combined error
C3_Witness ==
    /\ pc = "done"
    /\ classification # NoValue
    /\ classification.route = "API_CHECK"
    /\ enable_realtime_apis
    /\ intent = None
    /\ local_exc # NoValue
    /\ ~outcome.ok
    /\ IsCombinedError(outcome.exc)

(***************************************************************************)
(* C4 as claimed, for failures raised as backend errors: the only errors   *)
(* that reach the caller are InvalidInput and the combined error.          *)
(***************************************************************************)
C4_OnlyInvalidInputOrCombined ==
    (pc = "done" /\ ~outcome.ok /\ UntypedFailures = {})
    => \/ (outcome.exc.type = "ValueError" /\ IsBlank(prompt))
       \/ (local_exc # NoValue /\ IsCombinedError(outcome.exc))

(***************************************************************************)
(* C4, amended.  An error that reaches the caller of route_prompt is       *)
(*  - InvalidInput, for a blank prompt;                                    *)
(*  - the CloudBackendError of the direct call of the expensive backend    *)
(*    (forced-cloud mode, or route = CLOUD), which has no fallback;        *)
(*  - the combined error, after a LocalBackendError and a CloudBackendError*)
(*    of the fallback call;                                                *)
(*  - or an exception of another type that a backend client let escape.    *)
(* Provider failures, a failed synthesis and a CloudBackendError of the    *)
(* escalation call end in a returned response.                             *)
(***************************************************************************)
C4_ErrorsReachingCaller ==
    (pc = "done" /\ ~outcome.ok)
    => \/ /\ outcome.exc.type = "ValueError"
          /\ IsBlank(prompt)
          /\ calls = << >>
       \/ /\ local_response = NoValue /\ local_exc = NoValue
          /\ use_cloud \/ classification.route = "CLOUD"
          /\ Len(calls) >= 1 /\ LastCall.op = "ask_cloud"
          /\ outcome.exc.type = "CloudModelError"
          /\ outcome.exc = LastCall.result.exc
       \/ /\ local_exc # NoValue /\ local_exc.type = "LemonadeClientError"
          /\ IsCombinedError(outcome.exc)
       \/ /\ UntypedFailures # {}
          /\ \E i \in UntypedFailures : outcome.exc = calls[i].result.exc

\* forced-cloud mode: the expensive backend failed and its error is what
\* the caller got
C4_Witness ==
    /\ pc = "done"
    /\ use_cloud
    /\ ~outcome.ok
    /\ outcome.exc.type = "CloudModelError"
    /\ outcome.exc.cause = NoValue
    /\ Len(calls) = 1

(***************************************************************************)
(* C5. A blank (empty or whitespace-only) prompt fails with InvalidInput   *)
(* before any classification, status notification, provider call or        *)
(* backend call, whatever the options.                                     *)
(***************************************************************************)
C5_BlankPromptRejectedFirst ==
    IsBlank(prompt)
    => /\ calls = << >>
       /\ statuses = << >>
       /\ classification = NoValue
       /\ intent = None
       /\ pc \in { "start", "done" }
       /\ pc = "done" => ( ~outcome.ok /\ outcome.exc.type = "ValueError" )

\* a whitespace-only prompt in forced-cloud mode with an observer
C5_Witness ==
    /\ pc = "done"
    /\ prompt # ""
    /\ IsBlank(prompt)
    /\ use_cloud
    /\ observer
    /\ ~outcome.ok

(***************************************************************************)
(* C6. In forced-cloud mode no classification is made and neither the      *)
(* cheap backend nor a provider is called; for a valid prompt the          *)
(* expensive backend is called exactly once and the outcome of             *)
(* route_prompt is the outcome of that call.                               *)
(***************************************************************************)
C6_ForcedCloudDirect ==
    use_cloud
    => /\ classification = NoValue
       /\ intent = None
       /\ ClassifyCalls = {} /\ LocalCalls = {} /\ ProviderCalls = {}
       /\ ( pc = "done" /\ ~IsBlank(prompt) )
          => /\ Len(calls) = 1
             /\ calls[1].op = "ask_cloud"
             /\ calls[1].prompt = prompt
             /\ SameOutcome(outcome, calls[1].result)

C6_Witness ==
    /\ pc = "done"
    /\ use_cloud
    /\ outcome.ok
    /\ outcome.value.type = "CloudModelResponse"

(***************************************************************************)
(* C7. With forced-cloud mode off and a classification of route CLOUD, the *)
(* expensive backend is called directly, exactly once, and neither the     *)
(* cheap backend nor a provider is ever called, whether the call succeeds  *)
(* or fails.                                                               *)
(***************************************************************************)
C7_RouteCloudDirect ==
    ( ~use_cloud /\ classification # NoValue /\ classification.route = "CLOUD" )
    => /\ LocalCalls = {} /\ ProviderCalls = {}
       /\ local_response = NoValue /\ local_exc = NoValue
       /\ pc \in { "classified", "done" }
       /\ pc = "done"
          => /\ Cardinality(CloudCalls) = 1
             /\ LastCall.op = "ask_cloud"
             /\ SameOutcome(outcome, LastCall.result)

\* route = CLOUD and the expensive backend failed
C7_Witness ==
    /\ pc = "done"
    /\ ~use_cloud
    /\ classification # NoValue
    /\ classification.route = "CLOUD"
    /\ ~outcome.ok
    /\ CloudCalls # {}

(***************************************************************************)
(* Inputs of the pure functions: prompts assembled from fragments that     *)
(* carry (or not) a keyword of each table, in mixed case, followed by a    *)
(* run of neutral filler words that brings the word count to either side   *)
(* of MAX_LOCAL_WORD_COUNT.                                                *)
(***************************************************************************)
Fragments ==
    { "Weather", "I know", "Topology", "List ALL", "hi", "\n", "BTC today",
      "Breaking News" }

PadCounts ==
    { 0, MAX_LOCAL_WORD_COUNT - 2, MAX_LOCAL_WORD_COUNT - 1,
      MAX_LOCAL_WORD_COUNT, MAX_LOCAL_WORD_COUNT + 1 }

RECURSIVE JoinWords(_)
JoinWords(seq) ==
    IF Len(seq) = 0 THEN ""
    ELSE IF Len(seq) = 1 THEN seq[1]
    ELSE seq[1] \o " " \o JoinWords(Tail(seq))

RECURSIVE Filler(_)
Filler(n) ==
    IF n = 0 THEN ""
    ELSE IF n = 1 THEN "x"
    ELSE Filler(n \div 2) \o " " \o Filler(n - (n \div 2))

PadTo(head, pad) ==
    IF pad = 0 THEN head
    ELSE IF Len(head) = 0 THEN Filler(pad)
    ELSE head \o " " \o Filler(pad)

FunctionPrompts ==
    { PadTo(JoinWords(h), pad) :
        h \in UNION { [1..n -> Fragments] : n \in 0..MaxFrags },
        pad \in PadCounts }

(***************************************************************************)
(* Specification of the pure functions of heuristics.py: one prompt is     *)
(* drawn, classify_query_type and then detect_api_intent are applied.      *)
(***************************************************************************)
FnPinned ==
    /\ use_cloud = FALSE /\ enable_realtime_apis = TRUE
    /\ auto_escalate = TRUE /\ observer = FALSE /\ system_prompt = None
    /\ temperature = 7 /\ max_tokens = 512
    /\ api_results = << >> /\ local_response = NoValue
    /\ local_exc = NoValue /\ cloud_exc = NoValue
    /\ calls = << >> /\ statuses = << >> /\ outcome = NoValue
    /\ ClientIdle
    /\ Alone

InitFn ==
    /\ pc = "fn_ready"
    /\ prompt \in FunctionPrompts
    /\ classification = NoValue
    /\ intent = None
    /\ FnPinned

FnClassify ==
    /\ pc = "fn_ready"
    /\ classification' = classify_query_type(prompt)
    /\ pc' = "fn_classified"
    /\ UNCHANGED << inputs, client, process, intent, api_results, local_response, local_exc,
                    cloud_exc, calls, statuses, outcome >>

FnDetectIntent ==
    /\ pc = "fn_classified"
    /\ intent' = detect_api_intent(prompt)
    /\ pc' = "fn_done"
    /\ UNCHANGED << inputs, client, process, classification, api_results, local_response,
                    local_exc, cloud_exc, calls, statuses, outcome >>

NextFn == FnClassify \/ FnDetectIntent

SpecFn == InitFn /\ [][NextFn]_vars

(***************************************************************************)
(* Vocabulary of the properties of classify_query_type                     *)
(***************************************************************************)
Classified == pc \in { "fn_classified", "fn_done" }

\* the prompt holds a keyword of the table as a case-insensitive substring
Mentions(table) == ContainsAny(Lower(prompt), table)

WordCount == Cardinality(Split(prompt))

C9_FirstMatchWins ==
    (Classified /\ ~IsBlank(prompt) /\ ~Mentions(REALTIME_KEYWORDS))
    => /\ Mentions(SPECIALIZED_DOMAINS)
          => classification = Classification("CLOUD", "specialized_domain")
       /\ (~Mentions(SPECIALIZED_DOMAINS) /\ Mentions(COMPLEX_MARKERS))
          => classification
               = Classification("CLOUD", "too_complex_for_small_model")
       /\ ( ~Mentions(SPECIALIZED_DOMAINS) /\ ~Mentions(COMPLEX_MARKERS)
            /\ WordCount > 150 )
          => classification = Classification("CLOUD", "prompt_too_long")
       /\ ( ~Mentions(SPECIALIZED_DOMAINS) /\ ~Mentions(COMPLEX_MARKERS)
            /\ WordCount <= 150 )
          => classification = Classification("LOCAL", "default_energy_saving")

\* exactly 150 words and no marker: the prompt stays local
C9_Witness ==
    /\ Classified
    /\ WordCount = 150
    /\ ~Mentions(REALTIME_KEYWORDS \cup SPECIALIZED_DOMAINS \cup COMPLEX_MARKERS)
    /\ classification = Classification("LOCAL", "default_energy_saving")

(***************************************************************************)
(* C10 as claimed: every prompt of more than 150 words without a real-time *)
(* keyword is classified CLOUD / prompt_too_long.                          *)
(***************************************************************************)
C10_LongPromptTooLong ==
    (Classified /\ WordCount > 150 /\ ~Mentions(REALTIME_KEYWORDS))
    => classification = Classification("CLOUD", "prompt_too_long")

(***************************************************************************)
(* C10, amended.  Every prompt of more than 150 words without a real-time  *)
(* keyword is routed to CLOUD; the reason is prompt_too_long exactly when  *)
(* the prompt holds neither a specialized-domain marker nor a complexity   *)
(* marker (a marker is matched first and gives its own reason).            *)
(***************************************************************************)
C10_LongPromptCloud ==
    (Classified /\ WordCount > 150 /\ ~Mentions(REALTIME_KEYWORDS))
    => /\ classification.route = "CLOUD"
       /\ classification.reason = "prompt_too_long"
          <=> ~Mentions(SPECIALIZED_DOMAINS \cup COMPLEX_MARKERS)

\* 151 words, no keyword and no marker
C10_Witness ==
    /\ Classified
    /\ WordCount = 151
    /\ ~Mentions(REALTIME_KEYWORDS \cup SPECIALIZED_DOMAINS \cup COMPLEX_MARKERS)
    /\ classification = Classification("CLOUD", "prompt_too_long")

(***************************************************************************)
(* Specification of the backend clients: one call of ask_local, attempt by *)
(* attempt, or one call of ask_cloud.  The environment and the answer of   *)
(* the server to each request are drawn from the sets below.               *)
(***************************************************************************)
MaxRetries == 3

RetryTexts == { None, "two", "-1" } \cup { ToString(n) : n \in 0..MaxRetries }

BackoffTexts == { None, "0.25", "fast", "-1" }

TimeoutTexts == { None, "45", "soon" }

Envs ==
    { [LEMONADE_TIMEOUT_SECONDS |-> t, LEMONADE_MAX_RETRIES |-> m,
       LEMONADE_BACKOFF_SECONDS |-> b] :
        t \in TimeoutTexts, m \in RetryTexts, b \in BackoffTexts }

ClientPrompts == { "hi", " " }

ErrorExchanges ==
    { TransportError("Connection refused"),
      HttpResponse(503, NotJson, "Service Unavailable"),
      HttpResponse(500, ErrorBody([json |-> "object",
                                   message |-> JsonString("overloaded")]), ""),
      HttpResponse(503, ErrorBody(JsonString("overloaded")), ""),
      HttpResponse(404, ErrorBody(JsonAbsent), "{}"),
      HttpResponse(429, ErrorBody(JsonString("slow down")), "") }

InvalidPayloads ==
    { NotJson,
      ChoicesOnly(JsonAbsent),
      ChoicesOnly(JsonArray(<< >>)),
      ChoicesOnly(JsonArray(<< [json |-> "object", message |-> JsonAbsent] >>)),
      ChatCompletion(JsonAbsent, JsonAbsent),
      ChatCompletion(JsonNull, JsonInt(12)),
      ChatCompletion(JsonString("Paris."), JsonString("many")) }

OtherPayloads ==
    { JsonArray(<< >>),
      ChatCompletion(JsonNumber, JsonAbsent) }

ValidPayloads ==
    { ChatCompletion(JsonString(" Paris.\n"), JsonInt(12)),
      ChatCompletion(JsonString("Paris."), JsonString("12")),
      ChatCompletion(JsonString("I'm not sure."), JsonAbsent),
      ChatCompletion(JsonString("Paris."), JsonInt(0 - 3)) }

Exchanges ==
    ErrorExchanges
    \cup { HttpResponse(200, body, "") :
             body \in InvalidPayloads \cup OtherPayloads \cup ValidPayloads }

\* the variables of route_prompt that a backend client does not touch
router_locals ==
    << use_cloud, enable_realtime_apis, auto_escalate, observer,
       classification, intent, api_results, local_response, local_exc,
       cloud_exc, calls, statuses, tables, parked, running, chat >>

InitClient ==
    /\ pc = "client_ready"
    /\ prompt \in ClientPrompts
    /\ system_prompt \in SystemPrompts
    /\ temperature = 7 /\ max_tokens = 512
    /\ env \in Envs
    /\ attempt = 0 /\ max_attempts = 0 /\ backoff = 0
    /\ sleeps = << >> /\ requests = << >>
    /\ use_cloud = FALSE /\ enable_realtime_apis = TRUE
    /\ auto_escalate = TRUE /\ observer = FALSE
    /\ classification = NoValue /\ intent = None
    /\ api_results = << >> /\ local_response = NoValue
    /\ local_exc = NoValue /\ cloud_exc = NoValue
    /\ calls = << >> /\ statuses = << >> /\ outcome = NoValue
    /\ Alone

\* local_model.py lines 381-411: validation and configuration.  The router
\* passes no timeout, so call_timeout is _timeout() (line 407); its value
\* goes to requests.post, whose answers are drawn from Exchanges
AskLocalStart ==
    /\ pc = "client_ready"
    /\ LET t == timeout_seconds(env)
           b == backoff_seconds(env)
           m == max_retries(env)
       IN  IF IsBlank(prompt)
             THEN /\ outcome' = Raised(Exc("ValueError",
                                           "Prompt must be a non-empty string.",
                                           NoValue))
                  /\ pc' = "local_done"
                  /\ UNCHANGED << backoff, max_attempts >>
           ELSE IF ~t.ok
             THEN /\ outcome' = t
                  /\ pc' = "local_done"
                  /\ UNCHANGED << backoff, max_attempts >>
           ELSE IF ~b.ok
             THEN /\ outcome' = b
                  /\ pc' = "local_done"
                  /\ UNCHANGED << backoff, max_attempts >>
           ELSE IF ~m.ok
             THEN /\ outcome' = m
                  /\ pc' = "local_done"
                  /\ backoff' = b.value
                  /\ UNCHANGED max_attempts
           ELSE /\ backoff' = b.value
                /\ max_attempts' = m.value
                /\ pc' = "local_loop"
                /\ UNCHANGED outcome
    /\ UNCHANGED << prompt, system_prompt, temperature, max_tokens, env, attempt, sleeps, requests,
                    router_locals >>

\* time.sleep(backoff); backoff *= 2; attempt += 1; continue
\* (lines 425-428 and 448-451); time.sleep rejects a negative delay
RetryAfterBackoff ==
    IF backoff < 0
      THEN /\ outcome' = Raised(Exc("ValueError",
                                    "sleep length must be non-negative",
                                    NoValue))
           /\ pc' = "local_done"
           /\ UNCHANGED << sleeps, backoff, attempt >>
      ELSE /\ sleeps' = Append(sleeps, backoff)
           /\ backoff' = backoff * 2
           /\ attempt' = attempt + 1
           /\ UNCHANGED << pc, outcome >>

\* local_model.py lines 412-460: one iteration of the retry loop
AskLocalAttempt ==
    /\ pc = "local_loop"
    /\ attempt <= max_attempts
    /\ \E x \in Exchanges :
         LET step == attempt_result(prompt, x, attempt < max_attempts)
         IN  /\ requests' = Append(requests, x)
             /\ IF step.retry
                  THEN RetryAfterBackoff
                  ELSE /\ outcome' = step.result
                       /\ pc' = "local_done"
                       /\ UNCHANGED << sleeps, backoff, attempt >>
    /\ UNCHANGED << prompt, system_prompt, temperature, max_tokens, env, max_attempts, router_locals >>

\* local_model.py lines 412 and 462: the loop condition fails
AskLocalExhausted ==
    /\ pc = "local_loop"
    /\ attempt > max_attempts
    /\ outcome' = LemonadeClientError(
                      "Exhausted Lemonade retries without a successful call.",
                      NoValue)
    /\ pc' = "local_done"
    /\ UNCHANGED << prompt, system_prompt, temperature, max_tokens, env, attempt, max_attempts, backoff,
                    sleeps, requests, router_locals >>

\* the request that ask_cloud sends for the reply (cloud_model.py lines
\* 83-98): none when the prompt or the credential is rejected before
cloud_requests(p, reply) ==
    IF IsBlank(p) \/ reply.kind = "missing_key" THEN << >> ELSE << reply >>

\* the answers of the OpenAI client to ask_cloud called on its own: those
\* of CloudReplies, and completions whose usage reports other token counts
ClientCloudReplies ==
    CloudReplies
    \cup { [kind |-> "completion", model |-> "gpt-4o-mini-2024-07-18",
            choices |-> << [content |-> "Paris."] >>,
            usage |-> [total_tokens |-> t]] :
              t \in { NoValue, SomeInt(0), SomeInt(0 - 5) } }

\* AskCloud that sends the request again after a failed request
AskCloud_Retries ==
    /\ pc = "client_ready"
    /\ \E reply \in ClientCloudReplies :
         /\ requests' = requests \o cloud_requests(prompt, reply)
         /\ outcome' = ask_cloud(prompt, system_prompt, reply)
         /\ pc' = IF reply.kind = "request_failed" /\ Len(requests) = 0
                    THEN "client_ready" ELSE "cloud_done"
    /\ UNCHANGED << prompt, system_prompt, temperature, max_tokens, env, attempt, max_attempts, backoff,
                    sleeps, router_locals >>

\* cloud_model.py lines 78-117: one call of ask_cloud
AskCloud ==
    /\ pc = "client_ready"
    /\ \E reply \in ClientCloudReplies :
         /\ requests' = requests \o cloud_requests(prompt, reply)
         /\ outcome' = ask_cloud(prompt, system_prompt, reply)
    /\ pc' = "cloud_done"
    /\ UNCHANGED << prompt, system_prompt, temperature, max_tokens, env, attempt, max_attempts, backoff,
                    sleeps, router_locals >>

NextClient ==
    \/ AskLocalStart
    \/ AskLocalAttempt
    \/ AskLocalExhausted
    \/ AskCloud

SpecClient == InitClient /\ [][NextClient]_vars

(***************************************************************************)
(* Vocabulary of the properties of the backend clients                     *)
(***************************************************************************)
LocalCall == pc \in { "local_loop", "local_done" }

IsRetryableFailure(x) ==
    \/ x.kind = "transport_error"
    \/ x.kind = "http" /\ 500 <= x.status /\ x.status < 600

IsClientError(x) == x.kind = "http" /\ 400 <= x.status /\ x.status < 500

IsSuccessStatus(x) == x.kind = "http" /\ x.status < 400

\* the configured base interval of the backoff, in milliseconds
BackoffBase == backoff_seconds(env).value

RECURSIVE Pow2(_)
Pow2(n) == IF n = 0 THEN 1 ELSE 2 * Pow2(n - 1)

IsLocalBackendError(r) == ~r.ok /\ r.exc.type = "LemonadeClientError"

(***************************************************************************)
(* C11. A cheap backend that answers k retryable failures (HTTP 5xx or     *)
(* transport failure) and then a valid 200, k not above the configured     *)
(* max retries: every such failure answered while retries remain is        *)
(* followed by a sleep, the i-th sleep lasts base * 2^(i-1), and the valid *)
(* 200 ends the call with a response after exactly k retries.  Stated for  *)
(* a base interval that is not negative.                                   *)
(***************************************************************************)
C11_RetriesThenSuccess ==
    (LocalCall /\ backoff_seconds(env).ok /\ BackoffBase >= 0) =>
        /\ \A i \in 1..Len(requests) :
             (IsRetryableFailure(requests[i]) /\ i <= max_attempts) =>
                 /\ Len(sleeps) >= i
                 /\ sleeps[i] = BackoffBase * Pow2(i - 1)
        /\ ( /\ pc = "local_done"
             /\ Len(requests) > 0
             /\ IsSuccessStatus(requests[Len(requests)])
             /\ requests[Len(requests)].body \in ValidPayloads )
           => /\ outcome.ok
              /\ Len(sleeps) = Len(requests) - 1

(***************************************************************************)
(* C12. An HTTP 4xx answer on any attempt ends the call at once with       *)
(* LemonadeClientError: it is the last request, and no sleep follows it    *)
(* (so a 4xx on the first attempt means zero retries).                     *)
(***************************************************************************)
C12_ClientErrorFailsAtOnce ==
    LocalCall =>
        \A i \in 1..Len(requests) :
            IsClientError(requests[i]) =>
                /\ i = Len(requests)
                /\ pc = "local_done"
                /\ IsLocalBackendError(outcome)
                /\ Len(sleeps) = i - 1

(***************************************************************************)
(* C13. An HTTP 200 answer is never retried: it is the last request and no *)
(* sleep follows it, also when retries remain; when its body is not JSON,  *)
(* has no choices, no message content, null content or an invalid token    *)
(* count, the call fails with LemonadeClientError.                         *)
(***************************************************************************)
C13_ParseFailureNotRetried ==
    LocalCall =>
        \A i \in 1..Len(requests) :
            IsSuccessStatus(requests[i]) =>
                /\ i = Len(requests)
                /\ pc = "local_done"
                /\ Len(sleeps) = i - 1
                /\ requests[i].body \in InvalidPayloads
                     => IsLocalBackendError(outcome)

\* an unparsable 200 that arrives after one retry, with retries left
C13_Witness ==
    /\ pc = "local_done"
    /\ Len(requests) = 2
    /\ attempt < max_attempts
    /\ IsSuccessStatus(requests[2])
    /\ requests[2].body = ChoicesOnly(JsonArray(<< >>))
    /\ IsLocalBackendError(outcome)
    /\ outcome.exc.msg = "Lemonade response missing 'choices'."

(***************************************************************************)
(* C14. One call of ask_cloud sends exactly one request and never sleeps;  *)
(* a failed request is raised as CloudModelError.  Stated for non-blank    *)
(* prompts.                                                                *)
(***************************************************************************)
C14_ExactlyOneRequest ==
    (pc = "cloud_done" /\ ~IsBlank(prompt)) =>
        /\ Len(requests) = 1
        /\ sleeps = << >>
        /\ requests[1].kind = "request_failed"
             => (~outcome.ok /\ outcome.exc.type = "CloudModelError")

\* C14, amended: one call of ask_cloud sends at most one request and never
\* sleeps; it sends none exactly when the prompt is blank or the credential
\* is missing, and then it raises (CloudModelError for the credential); a
\* failed request is raised at once as CloudModelError carrying its cause.
C14_SingleAttempt ==
    pc = "cloud_done" =>
        /\ Len(requests) <= 1
        /\ sleeps = << >>
        /\ Len(requests) = 0 =>
             /\ ~outcome.ok
             /\ \/ IsBlank(prompt) /\ outcome.exc.type = "ValueError"
                \/ outcome.exc =
                     Exc("CloudModelError",
                         "Missing OPENAI_API_KEY environment variable.", NoValue)
        /\ (Len(requests) = 1 /\ requests[1].kind = "request_failed") =>
             /\ ~outcome.ok
             /\ outcome.exc.type = "CloudModelError"
             /\ outcome.exc.cause # NoValue

C14_Witness ==
    /\ pc = "cloud_done"
    /\ Len(requests) = 1
    /\ requests[1].kind = "request_failed"
    /\ ~outcome.ok
    /\ outcome.exc.type = "CloudModelError"

(***************************************************************************)
(* Vocabulary of the properties of the augmentation sub-pipeline           *)
(***************************************************************************)
\* run_api_check was entered: its first step is logged
PipelineRan == \E i \in 1..Len(calls) : calls[i].op = "detect_api_intent"

InPipeline ==
    pc \in { "api_check", "api_no_intent", "api_collect", "api_synthesis" }

\* the local path was entered and its first step was taken
PastLocalStart ==
    pc \in { "plain_local", "annotate", "validate", "escalate",
             "local_raised", "done" }

FirstLocalCall == calls[CHOOSE i \in LocalCalls : \A j \in LocalCalls : i <= j]

(***************************************************************************)
(* C15. run_api_check runs, and a provider is called, only when the        *)
(* classification route is API_CHECK and enable_realtime_apis is set; on   *)
(* a LOCAL route, or on API_CHECK with the option off, the plain           *)
(* cheap-backend call (guideline prompt, no provider data) is made and no  *)
(* provider is called.                                                     *)
(***************************************************************************)
C15_AugmentationOnlyWhenEnabled ==
    /\ (PipelineRan \/ InPipeline \/ ProviderCalls # {}) =>
           /\ ~use_cloud
           /\ classification # NoValue
           /\ classification.route = "API_CHECK"
           /\ enable_realtime_apis
    /\ ( /\ classification # NoValue
         /\ classification.route # "CLOUD"
         /\ ~(classification.route = "API_CHECK" /\ enable_realtime_apis)
         /\ PastLocalStart )
       => /\ ~PipelineRan
          /\ ProviderCalls = {}
          /\ pc # "plain_local" =>
               /\ Cardinality(LocalCalls) = 1
               /\ FirstLocalCall.prompt = build_local_prompt(prompt, None)

\* a weather prompt routed with the option off: the plain call, no provider
C15_Witness ==
    /\ pc = "done"
    /\ classification # NoValue
    /\ classification.route = "API_CHECK"
    /\ ~enable_realtime_apis
    /\ detect_api_intent(prompt) = "weather"
    /\ Cardinality(LocalCalls) = 1
    /\ ProviderCalls = {}

\* the provider call of the pipeline (there is at most one)
ProviderCall == calls[CHOOSE i \in ProviderCalls : TRUE]

\* the provider raised, or handed back its failure text
\* ("... data unavailable (...)", api_tools.py)
ReportsFailure(provider) ==
    \/ provider.kind = "raises"
    \/ provider.kind = "text" /\ Contains(provider.text, "unavailable")

\* the prompt notes that real-time data was unavailable and asks for an
\* answer from general knowledge
NotesDataUnavailable(p) ==
    /\ Contains(Lower(p), "unavailable")
    /\ Contains(Lower(p), "general knowledge")

\* the cheap-backend call of the pipeline was made
PipelineCalledLocal == PipelineRan /\ LocalCalls # {}

(***************************************************************************)
(* C16. When run_api_check finds no intent, no provider is called and the  *)
(* cheap backend is invoked with a prompt that notes that real-time data   *)
(* was unavailable and asks for an answer from general knowledge.          *)
(***************************************************************************)
C16_NoIntentNotesUnavailable ==
    (PipelineCalledLocal /\ detect_api_intent(prompt) = None) =>
        /\ ProviderCalls = {}
        /\ NotesDataUnavailable(FirstLocalCall.prompt)

(***************************************************************************)
(* C17. When an intent is detected and the provider gives no usable data   *)
(* (it raised, or it handed back its failure text), the cheap backend is   *)
(* invoked with the prompt that notes that real-time data was unavailable, *)
(* and the failure text is not embedded in it as real-time data.           *)
(***************************************************************************)
C17_ProviderFailureNotesUnavailable ==
    ( /\ PipelineCalledLocal
      /\ ProviderCalls # {}
      /\ ReportsFailure(ProviderCall.result) )
    => /\ NotesDataUnavailable(FirstLocalCall.prompt)
       /\ FirstLocalCall.prompt = api_check_request(prompt, << >>)

(***************************************************************************)
(* C18. A provider that raises does not end the pipeline: the exception    *)
(* becomes the inline text "<Api> API error: <exception>", the cheap       *)
(* backend is called next, and what route_prompt raises, if it raises, is  *)
(* an exception of a backend client, never the provider's.                 *)
(***************************************************************************)
C18_ProviderExceptionInline ==
    (ProviderCalls # {} /\ ProviderCall.result.kind = "raises") =>
        /\ api_results = << Capitalize(ProviderCall.api) \o " API error: "
                              \o ProviderCall.result.error >>
        /\ pc # "api_synthesis" =>
             /\ Cardinality(LocalCalls) = 1
             /\ \A i \in ProviderCalls : \A j \in LocalCalls : i < j
             /\ Contains(FirstLocalCall.prompt, api_results[1])
        /\ (pc = "local_raised" \/ (outcome # NoValue /\ ~outcome.ok)) =>
             \E i \in LocalCalls \cup CloudCalls : ~calls[i].result.ok
        /\ pc = "local_raised" => local_exc = FirstLocalCall.result.exc

\* the provider raised, the cheap backend was called and answered
C18_Witness ==
    /\ pc = "done"
    /\ ProviderCalls # {}
    /\ ProviderCall.result.kind = "raises"
    /\ api_results = << "Weather API error: timed out" >>
    /\ Cardinality(LocalCalls) = 1
    /\ outcome.ok
    /\ outcome.value.text = "Paris."

(***************************************************************************)
(* C19. With a provider that returned the summary S: when the synthesis    *)
(* call fails, the pipeline raises nothing and returns a response whose    *)
(* text is S and whose model is "api-direct"; when it succeeds, the text   *)
(* is the text of the cheap backend's answer.                              *)
(***************************************************************************)
C19_SynthesisFailureReturnsSummary ==
    ( /\ PipelineCalledLocal
      /\ ProviderCalls # {}
      /\ ProviderCall.result.kind = "text"
      /\ pc \in { "annotate", "local_raised" } )
    => IF FirstLocalCall.result.ok
         THEN /\ pc = "annotate"
              /\ local_response.text = FirstLocalCall.result.value.text
         ELSE /\ pc = "annotate"
              /\ local_response.text = ProviderCall.result.text
              /\ local_response.model = "api-direct"

\* C19, amended: when the synthesis call fails with LemonadeClientError the
\* pipeline raises nothing and returns the collected line, that is S behind
\* the label of its provider ("Weather: S"), with model "api-direct"; when
\* the call succeeds the text is the text of the cheap backend's answer.  An
\* exception of another type leaves the pipeline as raised.
C19_SynthesisFailureReturnsContext ==
    ( /\ PipelineCalledLocal
      /\ ProviderCalls # {}
      /\ ProviderCall.result.kind = "text"
      /\ pc \in { "annotate", "local_raised" } )
    => IF FirstLocalCall.result.ok
         THEN /\ pc = "annotate"
              /\ local_response.text = FirstLocalCall.result.value.text
              /\ local_response.model = DEFAULT_MODEL
       ELSE IF FirstLocalCall.result.exc.type = "LemonadeClientError"
         THEN /\ pc = "annotate"
              /\ local_response.text =
                   Capitalize(ProviderCall.api) \o ": "
                       \o ProviderCall.result.text
              /\ local_response.model = "api-direct"
       ELSE /\ pc = "local_raised"
            /\ local_exc = FirstLocalCall.result.exc

C19_Witness ==
    /\ pc = "annotate"
    /\ ProviderCalls # {}
    /\ ProviderCall.result = [kind |-> "text", text |-> "Clear, 15 deg C"]
    /\ Cardinality(LocalCalls) = 1
    /\ IsLocalBackendError(FirstLocalCall.result)
    /\ local_response.text = "Weather: Clear, 15 deg C"
    /\ local_response.model = "api-direct"

(***************************************************************************)
(* Specification of route_prompt with a status callback that may raise.    *)
(* In Spec every on_status_change(code) returns; here a call of the        *)
(* callback may also raise.  route_prompt calls it unguarded (router.py    *)
(* lines 113-114, 135-136, 147-148, 153-154, 190-192), and no handler of   *)
(* route_prompt matches the exception, so it leaves route_prompt.          *)
(***************************************************************************)
ObserverError == Exc("RuntimeError", "status callback failed", NoValue)

\* the callback returned for the codes before the last of `codes` and
\* raised for the last
ObserverRaisesAfter(codes) ==
    /\ observer
    /\ statuses' = statuses \o codes
    /\ outcome' = Raised(ObserverError)
    /\ pc' = "done"
    /\ UNCHANGED << inputs, client, process, classification, intent, api_results,
                    local_response, local_exc, cloud_exc, calls >>

\* router.py lines 113-114
ObserverRaisesForcedCloud ==
    /\ pc = "dispatch"
    /\ use_cloud
    /\ ObserverRaisesAfter(<< "cloud_processing" >>)

\* router.py lines 135-136
ObserverRaisesPreRoutedCloud ==
    /\ pc = "classified"
    /\ classification.route = "CLOUD"
    /\ ObserverRaisesAfter(<< "cloud_processing" >>)

\* router.py lines 147-148
ObserverRaisesLocalStart ==
    /\ pc = "classified"
    /\ classification.route # "CLOUD"
    /\ ObserverRaisesAfter(<< "local_starting" >>)

\* router.py lines 153-154
ObserverRaisesApiFetching ==
    /\ pc = "classified"
    /\ classification.route # "CLOUD"
    /\ needs_realtime_data /\ enable_realtime_apis
    /\ ObserverRaisesAfter(<< "local_starting", "api_fetching" >>)

\* router.py lines 190-192
ObserverRaisesEscalation ==
    /\ pc = "validate"
    /\ auto_escalate /\ response_shows_uncertainty(local_response)
    /\ \E codes \in { << "local_uncertain_escalating" >>,
                      << "local_uncertain_escalating", "cloud_processing" >> } :
         ObserverRaisesAfter(codes)

NextObserved ==
    \/ Next
    \/ ObserverRaisesForcedCloud
    \/ ObserverRaisesPreRoutedCloud
    \/ ObserverRaisesLocalStart
    \/ ObserverRaisesApiFetching
    \/ ObserverRaisesEscalation

SpecObserved == Init /\ [][NextObserved]_vars

(***************************************************************************)
(* C20. The status callback is purely observational: with any callback,    *)
(* one that raises included, route_prompt makes the calls and gives the    *)
(* outcome of the same call without a callback.  A call without a callback *)
(* ends only after it rejected a blank prompt or called a backend, and     *)
(* never with the exception of a callback; so must every call.             *)
(***************************************************************************)
C20_ObserverIsObservational ==
    pc = "done" =>
        /\ outcome # Raised(ObserverError)
        /\ IsBlank(prompt) \/ CloudCalls \cup LocalCalls # {}

(***************************************************************************)
(* Vocabulary of the properties of the energy annotation                   *)
(***************************************************************************)
\* the response the local path produced, as it was before the annotation:
\* the answer of the cheap backend, or the raw provider data when the
\* synthesis call failed
LocalProduced ==
    IF FirstLocalCall.result.ok THEN FirstLocalCall.result.value
    ELSE ApiDirectResponse(prompt, JoinLines(api_results))

\* _annotate_local_energy was called (router.py line 181)
PastAnnotate ==
    local_response # NoValue /\ pc \in { "validate", "escalate", "done" }

Uncertain(response) == auto_escalate /\ response_shows_uncertainty(response)

(***************************************************************************)
(* C21. A failed energy estimate raises nothing and changes nothing: the   *)
(* cheap-backend response keeps every field it had before the annotation   *)
(* (it stays unannotated), the uncertainty check and the escalation go on  *)
(* as they do for that response, an expensive-backend response is returned *)
(* as ask_cloud gave it, and an exception reaches the caller only for a    *)
(* blank prompt or from a backend call that raised.                        *)
(***************************************************************************)
C21_AnnotationFailureHarmless ==
    /\ (PastAnnotate /\ local_response.energy = NoValue) =>
           /\ local_response = LocalProduced
           /\ pc = "escalate" => Uncertain(LocalProduced)
           /\ pc = "done" =>
                IF Uncertain(LocalProduced) THEN Cardinality(CloudCalls) = 1
                ELSE outcome = Returned(LocalProduced) /\ CloudCalls = {}
    /\ PastAnnotate => SameResponse(local_response, LocalProduced)
    /\ ( pc = "done" /\ CloudCalls # {} /\ LastCall.op = "ask_cloud"
         /\ LastCall.result.ok )
       => /\ outcome.ok
          /\ SameResponse(outcome.value, LastCall.result.value)
          /\ outcome.value.energy = NoValue => outcome = LastCall.result
    /\ (pc = "done" /\ ~outcome.ok) =>
           \/ IsBlank(prompt)
           \/ \E i \in LocalCalls \cup CloudCalls :
                  ~calls[i].result.ok /\ calls[i].result.exc.type = outcome.exc.type

\* both estimates failed on an escalated call: the uncertain cheap-backend
\* response stayed unannotated, and so did the expensive-backend response
\* that was returned
C21_Witness ==
    /\ pc = "done"
    /\ local_response # NoValue
    /\ local_response.energy = NoValue
    /\ Uncertain(local_response)
    /\ outcome.ok
    /\ outcome.value.type = "CloudModelResponse"
    /\ outcome.value.energy = NoValue

(***************************************************************************)
(* Specification of the validator of heuristics.py: a cheap-backend        *)
(* response is drawn and response_shows_uncertainty is applied to it.  The *)
(* texts are two fragments joined with or without a blank, so that a       *)
(* phrase may be whole, in capitals, or split over the fragments.          *)
(***************************************************************************)
TextFragments ==
    { "", " ", "\n", "Paris", "I don't know.", "I DON", "'T", "Not", "SURE",
      "As an", "AI", "Sorry,", "I", "unable", "to help", "maybe" }

ResponseTexts ==
    { a \o sep \o b : a \in TextFragments, b \in TextFragments,
                      sep \in { "", " " } }

ResponseOf(text) ==
    [ type |-> "LocalModelResponse", prompt |-> "hi", text |-> text,
      model |-> DEFAULT_MODEL, tokens_used |-> NoValue, energy |-> NoValue ]

InitValidator ==
    /\ pc = "validator_ready"
    /\ \E text \in ResponseTexts : local_response = ResponseOf(text)
    /\ prompt = "hi"
    /\ use_cloud = FALSE /\ enable_realtime_apis = TRUE
    /\ auto_escalate = TRUE /\ observer = FALSE /\ system_prompt = None
    /\ temperature = 7 /\ max_tokens = 512
    /\ classification = NoValue /\ intent = None
    /\ api_results = << >> /\ local_exc = NoValue /\ cloud_exc = NoValue
    /\ calls = << >> /\ statuses = << >> /\ outcome = NoValue
    /\ ClientIdle
    /\ Alone

\* heuristics.py lines 252-286
ShowsUncertainty ==
    /\ pc = "validator_ready"
    /\ outcome' = Returned(response_shows_uncertainty(local_response))
    /\ pc' = "validator_done"
    /\ UNCHANGED << inputs, client, process, classification, intent, api_results,
                    local_response, local_exc, cloud_exc, calls, statuses >>

NextValidator == ShowsUncertainty

SpecValidator == InitValidator /\ [][NextValidator]_vars

\* k occurs in s as a case-insensitive substring: some stretch of s spells
\* k once its letters are put in lower case
OccursIgnoringCase(s, k) ==
    \E i \in 1..(Len(s) - Len(k) + 1) : Lower(SubSeq(s, i, i + Len(k) - 1)) = k

(***************************************************************************)
(* C22. response_shows_uncertainty is true exactly when the trimmed text   *)
(* of the response is empty or a phrase of UNCERTAINTY_PHRASES occurs in   *)
(* it as a case-insensitive substring; it is true for "I don't know." and  *)
(* false for "Paris".                                                      *)
(***************************************************************************)
C22_UncertaintyIffEmptyOrPhrase ==
    pc = "validator_done" =>
        /\ outcome.value
             <=> \/ Strip(local_response.text) = ""
                 \/ \E phrase \in UNCERTAINTY_PHRASES :
                        OccursIgnoringCase(local_response.text, phrase)
        /\ local_response.text = "I don't know." => outcome.value
        /\ local_response.text = "Paris" => ~outcome.value

\* a phrase in mixed case, split over two fragments
C22_Witness ==
    /\ pc = "validator_done"
    /\ local_response.text = "Not SURE"
    /\ ~ContainsAny(local_response.text, UNCERTAINTY_PHRASES)
    /\ outcome.value

(***************************************************************************)
(* C23. classify_query_type gives LOCAL / empty_prompt for the empty       *)
(* string and for a prompt of whitespace only, and for no other prompt: a  *)
(* blank prompt never reaches the keyword rules, whose default is LOCAL /  *)
(* default_energy_saving.                                                  *)
(***************************************************************************)
C23_BlankPromptShortCircuits ==
    Classified =>
        /\ (prompt = "" \/ Strip(prompt) = "")
             => classification = Classification("LOCAL", "empty_prompt")
        /\ classification.reason = "empty_prompt"
             => \A i \in 1..Len(prompt) : CharAt(prompt, i) \in Whitespace

\* a prompt of whitespace only
C23_Witness ==
    /\ Classified
    /\ Len(prompt) > 1
    /\ \A i \in 1..Len(prompt) : CharAt(prompt, i) \in Whitespace
    /\ classification = Classification("LOCAL", "empty_prompt")

(***************************************************************************)
(* C24. detect_api_intent scans the keyword groups in the order weather,   *)
(* crypto, news and returns the first group of which a keyword occurs in   *)
(* the prompt as a case-insensitive substring: weather whenever a weather  *)
(* keyword occurs, crypto when a crypto keyword and no weather keyword     *)
(* occurs, news when only a news keyword occurs, and no intent when no     *)
(* keyword occurs or the prompt is blank.                                  *)
(***************************************************************************)
C24_IntentPriority ==
    pc = "fn_done" =>
        intent =
            IF Strip(prompt) = "" THEN None
            ELSE IF Mentions(WEATHER_KEYWORDS) THEN "weather"
            ELSE IF Mentions(CRYPTO_KEYWORDS) THEN "crypto"
            ELSE IF Mentions(NEWS_KEYWORDS) THEN "news"
            ELSE None

\* keywords of two groups in one prompt, the one of lower priority first
C24_Witness ==
    /\ pc = "fn_done"
    /\ prompt = "Breaking News BTC today"
    /\ Mentions(NEWS_KEYWORDS) /\ Mentions(CRYPTO_KEYWORDS)
    /\ intent = "crypto"

(***************************************************************************)
(* Vocabulary of the properties of the classification step                 *)
(***************************************************************************)
\* the calls that leave the process: backends and providers
OutboundCalls == CloudCalls \cup LocalCalls \cup ProviderCalls

(***************************************************************************)
(* C25 as claimed: a call of route_prompt that went through (its prompt    *)
(* was not rejected) computed exactly one classification, before every     *)
(* backend and provider call.                                              *)
(***************************************************************************)
C25_ExactlyOneClassification ==
    (pc = "done" /\ ~IsBlank(prompt)) =>
        /\ Cardinality(ClassifyCalls) = 1
        /\ \A c \in ClassifyCalls : \A i \in OutboundCalls : c < i

(***************************************************************************)
(* C25, amended.  route_prompt computes at most one classification, and    *)
(* computes it before every backend and provider call; the classification  *)
(* it holds is the one of its prompt.  With forced-cloud mode off, a call  *)
(* that went through computed exactly one, and no backend or provider is   *)
(* called without it; in forced-cloud mode none is computed.               *)
(***************************************************************************)
C25_OneClassificationUnlessForced ==
    /\ Cardinality(ClassifyCalls) <= 1
    /\ \A c \in ClassifyCalls : \A i \in OutboundCalls : c < i
    /\ IF ClassifyCalls = {} THEN classification = NoValue
       ELSE classification = classify_query_type(prompt)
    /\ use_cloud => ClassifyCalls = {}
    /\ (~use_cloud /\ OutboundCalls # {}) => Cardinality(ClassifyCalls) = 1
    /\ (~use_cloud /\ pc = "done" /\ ~IsBlank(prompt))
         => Cardinality(ClassifyCalls) = 1

\* the augmented path, escalated: one classification, then a provider, the
\* cheap backend and the expensive backend
C25_Witness ==
    /\ pc = "done"
    /\ ~use_cloud
    /\ ClassifyCalls = { 1 }
    /\ ProviderCalls # {} /\ LocalCalls # {} /\ CloudCalls # {}
    /\ classification = Classification("API_CHECK", "needs_realtime_data")

(***************************************************************************)
(* Vocabulary of the properties of the returned response                   *)
(***************************************************************************)
\* the path of route_prompt that produced the response it returned
ReturnedPath ==
    IF outcome.value.type = "CloudModelResponse"
      THEN IF local_response # NoValue THEN "cloud-escalated"
           ELSE IF local_exc # NoValue THEN "cloud-fallback-after-local-error"
           ELSE "cloud-direct"
    ELSE IF PipelineRan THEN "local-augmented"
    ELSE "local-direct"

\* the responses that route_prompt(prompt, use_cloud=True, ...) returns for
\* the prompt and system prompt of this call: the direct path
DirectCloudResponses ==
    { call_cloud(prompt, system_prompt, reply, estimate).value :
        reply \in { r \in CloudReplies : ask_cloud(prompt, system_prompt, r).ok },
        estimate \in EnergyEstimates }

(***************************************************************************)
(* C26. The response that route_prompt returns tells the path that         *)
(* produced it: a response returned on another path than the direct call   *)
(* of the expensive backend is not a value that the direct path returns.   *)
(* The responses of the code carry no field that names the path.           *)
(***************************************************************************)
C26_PathReadableFromResponse ==
    (pc = "done" /\ outcome.ok /\ ReturnedPath # "cloud-direct")
    => outcome.value \notin DirectCloudResponses

(***************************************************************************)
(* C27. In every response of a backend client, tokens_used is unknown      *)
(* (None) or an integer that is not negative, whatever total_tokens the    *)
(* usage field of the backend's answer holds.  Neither client checks the   *)
(* sign of the count.                                                      *)
(***************************************************************************)
C27_TokensUsedNonNegative ==
    (pc \in { "local_done", "cloud_done" } /\ outcome.ok) =>
        \/ outcome.value.tokens_used = NoValue
        \/ outcome.value.tokens_used.int >= 0

(***************************************************************************)
(* Specification of two calls of route_prompt in two threads of one        *)
(* process, for distinct prompts.  Each call has its own frame (arguments  *)
(* and locals); the variables of Spec hold the frame of the call that      *)
(* takes the next step and `parked` holds the frame of the other.  The     *)
(* steps of a call are those of Spec; Switch hands the processor to the    *)
(* other call, at any point.  The module-level tables are the only state   *)
(* the two calls have in common.                                           *)
(***************************************************************************)
Frame ==
    [ pc |-> pc, prompt |-> prompt, use_cloud |-> use_cloud,
      enable_realtime_apis |-> enable_realtime_apis,
      auto_escalate |-> auto_escalate, observer |-> observer,
      system_prompt |-> system_prompt, temperature |-> temperature,
      max_tokens |-> max_tokens, classification |-> classification,
      intent |-> intent, api_results |-> api_results,
      local_response |-> local_response, local_exc |-> local_exc,
      cloud_exc |-> cloud_exc, calls |-> calls, statuses |-> statuses,
      outcome |-> outcome ]

\* the frame of route_prompt(p, use_cloud=forced, on_status_change=cb)
NewCall(p, forced) ==
    [ pc |-> "start", prompt |-> p, use_cloud |-> forced,
      enable_realtime_apis |-> TRUE, auto_escalate |-> TRUE,
      observer |-> TRUE, system_prompt |-> None, temperature |-> 7,
      max_tokens |-> 512, classification |-> NoValue,
      intent |-> None, api_results |-> << >>, local_response |-> NoValue,
      local_exc |-> NoValue, cloud_exc |-> NoValue, calls |-> << >>,
      statuses |-> << >>, outcome |-> NoValue ]

FirstCalls ==
    { NewCall("hi", FALSE), NewCall("What's the weather in Paris?", FALSE) }

SecondCalls ==
    { NewCall("Explain topology", FALSE),
      NewCall("What is happening right now?", FALSE),
      NewCall("Latest BTC price", TRUE) }

\* the variables of Spec hold the frame c
Resume(c) ==
    /\ pc' = c.pc /\ prompt' = c.prompt /\ use_cloud' = c.use_cloud
    /\ enable_realtime_apis' = c.enable_realtime_apis
    /\ auto_escalate' = c.auto_escalate /\ observer' = c.observer
    /\ system_prompt' = c.system_prompt
    /\ temperature' = c.temperature /\ max_tokens' = c.max_tokens
    /\ classification' = c.classification /\ intent' = c.intent
    /\ api_results' = c.api_results /\ local_response' = c.local_response
    /\ local_exc' = c.local_exc /\ cloud_exc' = c.cloud_exc
    /\ calls' = c.calls /\ statuses' = c.statuses /\ outcome' = c.outcome

InitConcurrent ==
    /\ \E c \in FirstCalls :
         /\ pc = c.pc /\ prompt = c.prompt /\ use_cloud = c.use_cloud
         /\ enable_realtime_apis = c.enable_realtime_apis
         /\ auto_escalate = c.auto_escalate /\ observer = c.observer
         /\ system_prompt = c.system_prompt
         /\ temperature = c.temperature /\ max_tokens = c.max_tokens
         /\ classification = c.classification /\ intent = c.intent
         /\ api_results = c.api_results /\ local_response = c.local_response
         /\ local_exc = c.local_exc /\ cloud_exc = c.cloud_exc
         /\ calls = c.calls /\ statuses = c.statuses /\ outcome = c.outcome
    /\ parked \in SecondCalls
    /\ running = 1
    /\ tables = ModuleTables
    /\ NoChat
    /\ ClientIdle

\* the scheduler: the running thread is preempted and the other resumes
Switch ==
    /\ parked # NoValue
    /\ parked' = Frame
    /\ running' = 3 - running
    /\ Resume(parked)
    /\ UNCHANGED << client, tables, chat >>

NextConcurrent == Next \/ Switch

SpecConcurrent == InitConcurrent /\ [][NextConcurrent]_vars

\* the prompts a call with frame c hands to the classifiers and backends
PromptsOf(c) ==
    { c.prompt, build_local_prompt(c.prompt, None),
      api_check_request(c.prompt, c.api_results) }

\* everything in the frame c comes from the prompt of c
OwnWork(c) ==
    /\ c.classification \in { NoValue, classify_query_type(c.prompt) }
    /\ c.intent \in { None, detect_api_intent(c.prompt) }
    /\ \A i \in 1..Len(c.calls) :
         c.calls[i].op # "provider" => c.calls[i].prompt \in PromptsOf(c)
    /\ (c.outcome # NoValue /\ c.outcome.ok)
         => c.outcome.value.prompt \in PromptsOf(c)

(***************************************************************************)
(* C28. Two calls of route_prompt for distinct prompts share no mutable    *)
(* state: a step of one call changes neither the frame of the other call   *)
(* nor the module-level tables and default profiles, which stay as they    *)
(* were when the modules were imported; and under every interleaving, the  *)
(* classification, the intent, the calls and the response of each call     *)
(* are those of its own prompt.                                            *)
(***************************************************************************)
C28_CallsShareNoState ==
    /\ [](tables = ModuleTables /\ OwnWork(Frame) /\ OwnWork(parked))
    /\ [][running' = running => (parked' = parked /\ tables' = tables)]_vars

\* both calls are under way: one has called the cheap backend, the other
\* waits between its provider call and its synthesis call
C28_Witness ==
    /\ pc = "validate"
    /\ LocalCalls # {}
    /\ parked.pc = "api_synthesis"
    /\ parked.calls # << >>
    /\ parked.prompt # prompt

(***************************************************************************)
(* C29. With a configured max retries N >= 0, one call of ask_local sends  *)
(* at most N+1 requests; when every request ended in a retryable failure   *)
(* (HTTP 5xx or transport failure), the call raises LemonadeClientError    *)
(* after exactly N+1 requests and exactly N sleeps.                        *)
(***************************************************************************)
C29_RetryBudget ==
    ( /\ LocalCall
      /\ backoff_seconds(env).ok
      /\ max_retries(env).ok
      /\ max_retries(env).value >= 0 )
    => /\ Len(requests) <= max_retries(env).value + 1
       /\ ( /\ pc = "local_done"
            /\ Len(requests) > 0
            /\ \A i \in 1..Len(requests) : IsRetryableFailure(requests[i]) )
          => /\ IsLocalBackendError(outcome)
             /\ Len(requests) = max_retries(env).value + 1
             /\ Len(sleeps) = max_retries(env).value


(***************************************************************************)
(* C30. Once the prompt is not blank, every way a call of ask_local can    *)
(* fail (transport failure, HTTP error that is not retried, exhausted      *)
(* retries, a payload of any shape that cannot be read, an invalid retry,  *)
(* backoff or timeout setting) is a LemonadeClientError, the only error    *)
(* that route_prompt answers with its fallback to the cloud.               *)
(***************************************************************************)
C30_EveryFailureIsLocalBackendError ==
    ( /\ pc = "local_done"
      /\ ~IsBlank(prompt)
      /\ ~outcome.ok )
    => IsLocalBackendError(outcome)

(***************************************************************************)
(* C31. A completion that exposes no choice, or whose first choice has no  *)
(* message content, cannot be normalized: ask_cloud fails with             *)
(* CloudModelError and returns no response (in particular none with an     *)
(* empty text).                                                            *)
(***************************************************************************)
C31_UnusableCompletionIsCloudBackendError ==
    ( /\ pc = "cloud_done"
      /\ Len(requests) = 1
      /\ requests[1].kind = "completion"
      /\ \/ Len(requests[1].choices) = 0
         \/ requests[1].choices[1].content = None )
    => /\ ~outcome.ok
       /\ outcome.exc.type = "CloudModelError"

(***************************************************************************)
(* C32. With auto_escalate false, a call that entered the local path and   *)
(* got a cheap-backend response returns that response as it is, flagged    *)
(* uncertain or not, and makes no expensive-backend call; the expensive    *)
(* backend is called exactly when a LemonadeClientError left the local     *)
(* path, as it is with auto_escalate true.                                 *)
(***************************************************************************)
C32_NoEscalationWhenDisabled ==
    ( /\ pc = "done"
      /\ ~auto_escalate
      /\ classification # NoValue
      /\ classification.route # "CLOUD" )
    => /\ local_response # NoValue
          => /\ outcome = Returned(local_response)
             /\ CloudCalls = {}
       /\ CloudCalls # {}
          <=> ( /\ local_exc # NoValue
                /\ local_exc.type = "LemonadeClientError" )

\* an uncertain cheap-backend response was returned, no escalation made
C32_Witness ==
    /\ pc = "done"
    /\ ~auto_escalate
    /\ local_response # NoValue
    /\ response_shows_uncertainty(local_response)
    /\ outcome = Returned(local_response)
    /\ CloudCalls = {}

(***************************************************************************)
(* prompts.py : the decline phrases the templates tell the cheap model to  *)
(* answer with (lines 62, 107 and 144)                                     *)
(***************************************************************************)
DECLINE_PHRASE == "I'm not sure."

FORCED_DECLINE_PHRASE == "I'm not sure - please use the cloud model."

\* build_local_prompt(user_query, escalate_immediately=True), lines 104-109
build_escalation_prompt(user_query) ==
    "This query exceeds the safe local knowledge boundary.\n"
    \o "Respond exactly with: \"" \o FORCED_DECLINE_PHRASE \o "\"\n\n"
    \o "User question: " \o user_query

DeclinePhrases == { DECLINE_PHRASE, FORCED_DECLINE_PHRASE }

\* the templates name the phrases between quotes
TemplatesNameDeclinePhrases ==
    /\ Contains(LOCAL_GUIDELINES, "\"" \o DECLINE_PHRASE \o "\"")
    /\ Contains(SYSTEM_PROMPT_LOCAL, "\"" \o DECLINE_PHRASE \o "\"")
    /\ Contains(build_escalation_prompt("hi"),
                "\"" \o FORCED_DECLINE_PHRASE \o "\"")

(***************************************************************************)
(* C33. The decline phrases of the local prompt templates are recognised   *)
(* by response_shows_uncertainty, and a cheap-backend answer that consists *)
(* of such a phrase is escalated to the expensive backend when             *)
(* auto_escalate is set: it is never returned without a cloud call.        *)
(***************************************************************************)
C33_DeclinePhraseEscalates ==
    /\ TemplatesNameDeclinePhrases
    /\ \A d \in DeclinePhrases : response_shows_uncertainty(ResponseOf(d))
    /\ ( /\ pc \in { "escalate", "done" }
         /\ auto_escalate
         /\ local_response # NoValue
         /\ local_response.text \in DeclinePhrases )
       => \/ pc = "escalate"
          \/ CloudCalls # {}

\* the cheap backend answered with the decline phrase and the expensive
\* backend was called for it
C33_Witness ==
    /\ pc = "done"
    /\ auto_escalate
    /\ local_response # NoValue
    /\ local_response.text = DECLINE_PHRASE
    /\ \E i \in CloudCalls : \E j \in LocalCalls : j < i

(***************************************************************************)
(* C34. The statuses handed to on_status_change during one call are        *)
(* ordered: they are a subsequence of local_starting, api_fetching,        *)
(* local_uncertain_escalating, cloud_processing, each code at most once;   *)
(* local_starting was emitted before any cheap-backend or provider call,   *)
(* api_fetching before any provider call, and local_uncertain_escalating   *)
(* only once the local path has produced a response.                       *)
(***************************************************************************)
StatusOrder ==
    << "local_starting", "api_fetching", "local_uncertain_escalating",
       "cloud_processing" >>

StatusRank(code) == CHOOSE k \in 1..Len(StatusOrder) : StatusOrder[k] = code

Emitted(code) == \E i \in 1..Len(statuses) : statuses[i] = code

C35_CloudCallAnnounced ==
    (observer /\ CloudCalls # {}) => Emitted("cloud_processing")

(***************************************************************************)
(* route_prompt under the scheduling of a sequential Python call.  The     *)
(* positions of the call are those of Spec; Advance is the call moving on  *)
(* to another position.  Every backend, provider and classifier call       *)
(* returns or raises, so a call that has not ended moves on: weak fairness *)
(* of Advance.                                                             *)
(***************************************************************************)
Positions ==
    { "start", "dispatch", "classified", "plain_local", "api_check",
      "api_no_intent", "api_collect", "api_synthesis", "annotate",
      "validate", "escalate", "local_raised", "done" }

Advance == pc # "done" /\ pc' \in Positions \ { pc }

SpecLive == Init /\ [][Next]_vars /\ WF_pc(Advance)

(***************************************************************************)
(* C36. One call of route_prompt calls the cheap backend at most once and  *)
(* at most one provider, at most once; with the single call of the         *)
(* expensive backend that is at most three network calls, and the call of  *)
(* route_prompt ends (it returns or raises), given that each of those      *)
(* calls ends.                                                             *)
(***************************************************************************)
C36_BoundedCallsAndTermination ==
    /\ [] /\ Cardinality(LocalCalls) <= 1
          /\ Cardinality(ProviderCalls) <= 1
          /\ Cardinality(CloudCalls) <= 1
          /\ Cardinality(OutboundCalls) <= 3
    /\ <>(pc = "done" /\ outcome # NoValue)

\* a call that used all three: one provider, the cheap backend, then the
\* expensive backend
C36_Witness ==
    /\ pc = "done"
    /\ Cardinality(ProviderCalls) = 1
    /\ Cardinality(LocalCalls) = 1
    /\ Cardinality(CloudCalls) = 1

(***************************************************************************)
(* C37. Every keyword of an intent is a real-time keyword, so whenever     *)
(* detect_api_intent names an intent for a prompt, classify_query_type     *)
(* gives the route API_CHECK for it.  The converse fails: some real-time   *)
(* keywords belong to no intent, and a prompt with only such a keyword has *)
(* the route API_CHECK and no intent.                                      *)
(***************************************************************************)
IntentKeywords ==
    UNION { API_INTENT_KEYWORDS[i].keywords : i \in 1..Len(API_INTENT_KEYWORDS) }

C38_CloudGetsCallersArguments ==
    \A i \in CloudCalls :
        /\ calls[i].prompt = prompt
        /\ calls[i].system_prompt = system_prompt
        /\ calls[i].temperature = temperature
        /\ calls[i].max_tokens = max_tokens
        /\ calls[i].prompt \notin { build_local_prompt(prompt, None),
                                    api_check_request(prompt, api_results) }
        /\ system_prompt = None => calls[i].system_prompt # get_system_prompt_local

\* an answer built from provider data under the local identity was
\* escalated with sampling values of the caller's own
C38_Witness ==
    /\ pc = "done"
    /\ system_prompt = None
    /\ temperature = 0
    /\ \E i \in CloudCalls : \E j \in LocalCalls :
         /\ j < i
         /\ calls[j].prompt = api_check_request(prompt, api_results)
         /\ calls[j].system_prompt = get_system_prompt_local
         /\ calls[i].system_prompt = None
    /\ local_response # NoValue

(***************************************************************************)
(* C39. The prompt field of the response that route_prompt returns is the  *)
(* prompt the caller passed, on every path: local-direct, local-augmented  *)
(* with or without synthesis, cloud-direct, cloud-escalated and            *)
(* cloud-fallback.                                                         *)
(***************************************************************************)
C39_ResponseEchoesCallersPrompt ==
    (pc = "done" /\ outcome.ok) => outcome.value.prompt = prompt

(***************************************************************************)
(* apps/elia/elia_chat : the chat widget (widgets/chat.py) and the adapter *)
(* that calls route_prompt for it (seven_adapter.py).                      *)
(*                                                                         *)
(* The widget runs on the thread of the user interface; each submitted     *)
(* message starts the worker stream_agent_response in a thread of its own. *)
(* The worker calls route_prompt (the steps of Spec) and posts messages to *)
(* the widget, which handles them one at a time, in the order posted.      *)
(* The progress callback posts RoutingStatusUpdate, for which Chat has no  *)
(* handler: those messages are the `statuses` of the call.                 *)
(***************************************************************************)
MaxTurns == 2

\* what the user types
ChatPrompts ==
    { "hi", "What's the weather in Paris?", "What is happening right now?",
      "Explain topology" }

UserMessage(content) == [role |-> "user", content |-> content]

AssistantMessage(content) == [role |-> "assistant", content |-> content]

AgentResponseStarted == [type |-> "AgentResponseStarted"]

AgentResponseComplete(message) ==
    [type |-> "AgentResponseComplete", message |-> message]

AgentResponseFailed(last_message) ==
    [type |-> "AgentResponseFailed", last_message |-> last_message]

\* seven_adapter.py lines 100-105
RECURSIVE latest_user_prompt(_)
latest_user_prompt(msgs) ==
    IF Len(msgs) = 0 THEN ""
    ELSE IF msgs[Len(msgs)].role = "user" THEN msgs[Len(msgs)].content
    ELSE latest_user_prompt(SubSeq(msgs, 1, Len(msgs) - 1))

\* seven_adapter.py lines 108-121: the lines of the last `limit` messages
RECURSIVE context_lines(_)
context_lines(msgs) ==
    IF Len(msgs) = 0 THEN << >>
    ELSE LET m == Head(msgs)
             line ==
                 IF m.role \notin { "user", "assistant" } \/ m.content = ""
                   THEN << >>
                 ELSE << (IF m.role = "user" THEN "User" ELSE "SEVEN")
                         \o ": " \o Strip(m.content) >>
         IN  line \o context_lines(Tail(msgs))

conversation_context(msgs) ==
    LET limit == 6
        from == IF Len(msgs) > limit THEN Len(msgs) - limit + 1 ELSE 1
    IN  JoinLines(context_lines(SubSeq(msgs, from, Len(msgs))))

\* seven_adapter.py lines 57-68, for a runtime configuration whose own
\* system prompt is configured_prompt
adapter_system_prompt(msgs, configured_prompt) ==
    LET context_block == conversation_context(SubSeq(msgs, 1, Len(msgs) - 1))
        configured == Strip(configured_prompt)
        formatted_context ==
            "Conversation recap (most recent messages):\n"
            \o context_block \o "\n"
            \o "Use this context when responding to the latest user prompt."
        combined ==
            IF context_block = "" THEN configured
            ELSE IF configured # ""
              THEN Strip(configured \o "\n\n" \o formatted_context)
            ELSE formatted_context
    IN  IF combined = "" THEN None ELSE combined

\* the runtime configuration of the application: its system prompt and the
\* temperature of the selected model, in tenths
RuntimeConfig == [system_prompt |-> "Be brief.", temperature |-> 7]

\* the number of messages the user has submitted
Turns == Cardinality({ i \in 1..Len(messages) : messages[i].role = "user" })

\* chat.py lines 317-335: the widget is mounted on a stored chat; a chat
\* whose last message has no answer is sent again
InitChat ==
    /\ pc = "idle"
    /\ prompt = "" /\ use_cloud = FALSE /\ enable_realtime_apis = TRUE
    /\ auto_escalate = TRUE /\ observer = TRUE
    /\ system_prompt = None
    /\ temperature = 7 /\ max_tokens = 512
    /\ classification = NoValue /\ intent = None /\ api_results = << >>
    /\ local_response = NoValue /\ local_exc = NoValue /\ cloud_exc = NoValue
    /\ calls = << >> /\ statuses = << >> /\ outcome = NoValue
    /\ ClientIdle
    /\ tables = ModuleTables /\ parked = NoValue /\ running = 1
    /\ messages \in { << >>, << UserMessage("hi") >> }
    /\ IF Len(messages) > 0 /\ messages[Len(messages)].role = "user"
         THEN submit_ready = FALSE /\ worker = "scheduled"
         ELSE submit_ready = TRUE /\ worker = "none"
    /\ input_text = ""
    /\ posted = << >>
    /\ handled = 0

\* PromptInput posts PromptSubmitted for the text the user typed, and only
\* while it is submit-ready
PromptInputSubmits(content) == submit_ready /\ content # ""

\* chat.py lines 134-162
new_user_message(content) ==
    /\ messages' = Append(messages, UserMessage(content))
    /\ submit_ready' = FALSE
    /\ worker' = "scheduled"

\* chat.py lines 258-264; allow_input_submit is True from its declaration
\* (line 62) on, nothing assigns it
user_chat_message_submitted ==
    /\ Turns < MaxTurns
    /\ \E content \in ChatPrompts :
         /\ PromptInputSubmits(content)
         /\ new_user_message(content)
    /\ input_text' = ""
    /\ UNCHANGED << pc, inputs, client, tables, parked, running,
                    classification, intent, api_results, local_response,
                    local_exc, cloud_exc, calls, statuses, outcome,
                    posted, handled >>

\* chat.py lines 164-182 and seven_adapter.py lines 53-79: the worker posts
\* AgentResponseStarted and calls route_prompt for the latest user prompt
WorkerStart ==
    /\ worker = "scheduled"
    /\ LET prompt_text == latest_user_prompt(messages)
           call == [ NewCall(prompt_text, FALSE) EXCEPT
                       !.system_prompt =
                           adapter_system_prompt(messages,
                                                 RuntimeConfig.system_prompt),
                       !.temperature = RuntimeConfig.temperature ]
       IN  IF prompt_text = ""
             THEN /\ posted' = posted \o
                        << AgentResponseStarted,
                           AgentResponseFailed(messages[Len(messages)]) >>
                  /\ worker' = "none"
                  /\ UNCHANGED << pc, inputs, classification, intent,
                                  api_results, local_response, local_exc,
                                  cloud_exc, calls, statuses, outcome >>
             ELSE /\ posted' = Append(posted, AgentResponseStarted)
                  /\ worker' = "routing"
                  /\ Resume(call)
    /\ UNCHANGED << client, tables, parked, running, submit_ready,
                    input_text, messages, handled >>

\* chat.py lines 183-231: route_prompt has returned or raised
WorkerFinish ==
    /\ worker = "routing"
    /\ pc = "done"
    /\ posted' = Append(posted,
                        IF outcome.ok
                          THEN AgentResponseComplete(
                                   AssistantMessage(outcome.value.text))
                        ELSE AgentResponseFailed(messages[Len(messages)]))
    /\ worker' = "none"
    /\ UNCHANGED << pc, inputs, client, tables, parked, running,
                    classification, intent, api_results, local_response,
                    local_exc, cloud_exc, calls, statuses, outcome,
                    submit_ready, input_text, messages, handled >>

\* the message Chat handles next
NextEvent == posted[handled + 1]

\* chat.py lines 233-244, for AgentResponseStarted
agent_started_responding ==
    /\ handled < Len(posted)
    /\ NextEvent.type = "AgentResponseStarted"
    /\ handled' = handled + 1
    /\ UNCHANGED << pc, inputs, client, tables, parked, running,
                    classification, intent, api_results, local_response,
                    local_exc, cloud_exc, calls, statuses, outcome,
                    submit_ready, input_text, messages, worker, posted >>

\* chat.py lines 128-132 and 233-244, for AgentResponseFailed
restore_state_on_agent_failure ==
    /\ handled < Len(posted)
    /\ NextEvent.type = "AgentResponseFailed"
    /\ input_text' = NextEvent.last_message.content
    /\ handled' = handled + 1
    /\ UNCHANGED << pc, inputs, client, tables, parked, running,
                    classification, intent, api_results, local_response,
                    local_exc, cloud_exc, calls, statuses, outcome,
                    submit_ready, messages, worker, posted >>

\* chat.py lines 246-256
agent_finished_responding ==
    /\ handled < Len(posted)
    /\ NextEvent.type = "AgentResponseComplete"
    /\ messages' = Append(messages, NextEvent.message)
    /\ submit_ready' = TRUE
    /\ handled' = handled + 1
    /\ UNCHANGED << pc, inputs, client, tables, parked, running,
                    classification, intent, api_results, local_response,
                    local_exc, cloud_exc, calls, statuses, outcome,
                    input_text, worker, posted >>

\* the steps of route_prompt as the adapter calls it: use_cloud is never
\* passed, so the forced call of the expensive backend is not among them
NextChat ==
    \/ user_chat_message_submitted
    \/ WorkerStart
    \/ WorkerFinish
    \/ agent_started_responding
    \/ restore_state_on_agent_failure
    \/ agent_finished_responding
    \/ RouteValidate
    \/ RouteClassify
    \/ RoutePreRoutedCloud
    \/ RouteLocalStart
    \/ RoutePlainLocal
    \/ ApiCheckClassify
    \/ ApiCheckNoIntent
    \/ ApiCheckCollect
    \/ ApiCheckSynthesis
    \/ RouteAnnotate
    \/ RoutePostValidate
    \/ RouteEscalate
    \/ RouteLocalErrorFallback
    \/ RouteLocalErrorPropagates

SpecChat == InitChat /\ [][NextChat]_vars

TerminalEvents == { "AgentResponseComplete", "AgentResponseFailed" }

(***************************************************************************)
(* C40. In the chat widget a submitted message locks the prompt input and  *)
(* starts one worker; the worker posts AgentResponseStarted and then       *)
(* exactly one of AgentResponseComplete and AgentResponseFailed; once the  *)
(* widget has handled either of the two, the prompt input is submit-ready  *)
(* again.  The handlers of AgentResponseFailed put the text back and       *)
(* leave submit_ready as it is.                                            *)
(***************************************************************************)
C40_TerminalEventUnlocksInput ==
    /\ worker # "none" => ~submit_ready
    /\ \A i \in 1..Len(posted) :
         IF i % 2 = 1 THEN posted[i].type = "AgentResponseStarted"
         ELSE posted[i].type \in TerminalEvents
    /\ (worker = "none" /\ handled > 0 /\ handled = Len(posted))
         => submit_ready

====
